---- MODULE Spec2Model ----
(***************************************************************************)
(* Model of the v4 i18n subsystem of cabra-da-tech:                        *)
(*   I18n (js/i18n.js), LocaleDetector, FontLoader and LanguageSwitcher    *)
(*   (js/locale-detector.js) and the direction part of RTLSupport.         *)
(* JavaScript is single threaded: every action below is one run-to-        *)
(* completion piece of code (a call up to its first pending await, or the  *)
(* continuation that runs when an awaited operation settles).              *)
(***************************************************************************)
EXTENDS Integers, Sequences, FiniteSets, TLC

\* ------------------------------------------------------------------ bounds
MaxLtCalls == 2        \* loadTranslations calls issued by the environment
MaxFetches == 3        \* bundle fetches issued in one run
MaxTicks == 2          \* clock advances in one run
MaxFontCalls == 1      \* direct loadFont calls in one run
MaxLocaleLoads == 1    \* loadFontsForLocale calls in one run

\* --------------------------------------------------------------- constants
SUPPORTED_LOCALES == {"pt-BR", "en", "es", "ar", "hi", "ja", "ru"}
defaultLocale == "pt-BR"
fallbackLocale == "en"
cacheExpiration == 3600000

\* locales the environment asks for in the bounded runs
ModelLocales == {"en", "ar"}
\* clock steps (ms): two of them straddle cacheExpiration exactly
TickSteps == {1800000, 1800001}

VARIABLES
    \* ---- I18n
    translations,      \* locale -> loaded bundle (NotLoaded when absent)
    cache,             \* locale -> [has, timestamp]
    loadingPromises,   \* locale -> id of the pending fetch promise, 0 = none
    fetches,           \* every fetch issued: [locale, st]
    ltCalls,           \* loadTranslations calls: position and result
    now,               \* Date.now()
    ticks,             \* clock advances so far
    files,             \* locale -> the JSON document locales/<locale>.json
    i18nCurrentLocale, \* I18n.currentLocale
    tCall,             \* a call of I18n.t: arguments and returned value
    \* ---- FontLoader
    loadedFonts,       \* Set of font names marked as loaded
    fontLoadingPromises, \* font name -> id of its pending loadPromise, 0 = none
    fontPromises,      \* every loadPromise created: [font, stage, value]
    links,             \* web font -> state of its <link> in document.head
    linkInjections,    \* web font -> number of <link> elements appended
    fCalls,            \* loadFont calls: position and result
    lCalls,            \* loadFontsForLocale calls
    fontStack,         \* document.documentElement.style.fontFamily
    flCurrentLocale,   \* FontLoader.currentLocale
    \* ---- document, LocaleDetector, RTLSupport, IntlFormatter
    selectExists,      \* the document holds #select-language
    selectValue,       \* its value
    selectDisabled,    \* its disabled attribute and loading class
    htmlLang,          \* <html lang>
    htmlDir,           \* <html dir>
    pageLocale,        \* locale of the last translatePage
    vlibrasVisible,    \* the VLibras container is displayed
    liveText,          \* textContent of the live region
    announceTimers,    \* messages of the pending announce timeouts
    savedLocale,       \* localStorage entry of the locale
    ldCurrentLocale,   \* LocaleDetector.currentLocale
    rtlCurrentDirection, \* RTLSupport.currentDirection
    formatterLocale,   \* IntlFormatter.locale
    doc,               \* the elements of the document that RTLSupport adjusts
    doc0,              \* the document as it was loaded
    excludedElements,  \* RTLSupport.excludedElements
    rafPending,        \* animation-frame callbacks requested by the RTL observer
    dirCalls,          \* directions passed to RTLSupport.setDirection so far
    insertions,        \* nodes inserted into the body by other scripts
    liveRegionExists,  \* the document holds #live-region
    pageHasI18n,       \* the body holds data-i18n elements without child elements,
                       \* whose textContent translatePage assigns
    navLanguage,       \* navigator.language
    navLanguages,      \* navigator.languages
    urlParams,         \* the lang and locale parameters of location.search
    storageDisabled,   \* every localStorage access throws
    ldCalls,           \* calls of detect, detectBrowserLocale and window.setLocale
    newsCurrentLocale, \* NewsManager.currentLocale
    newsEvents,        \* locales the language-change handler of NewsManager received
    i18nInit,          \* the i18n.init call of the localedetected listener
    app,               \* CabraDaTechApp.init: its position and the class it set on body
    initTimer,         \* the 500 ms timeout of LanguageSwitcher's DOMContentLoaded listener
    clCalls,           \* direct i18n.changeLocale calls: position and result
    tsCache,           \* TranslationService.cache: entries [key, value]
    tsStorage,         \* the translations saved in localStorage
    translateCalls,    \* TranslationService.translate calls: position and result
    \* ---- LanguageSwitcher
    lsCurrentLocale,   \* LanguageSwitcher.currentLocale
    isChanging,        \* LanguageSwitcher.isChanging
    languageChanged,   \* details of the languagechanged events dispatched
    chCalls            \* changeLanguage calls: position and result

i18nVars == <<translations, cache, loadingPromises, fetches, ltCalls, now, ticks,
              files, i18nCurrentLocale, tCall>>
fontVars == <<loadedFonts, fontLoadingPromises, fontPromises, links, linkInjections,
              fCalls, lCalls, fontStack, flCurrentLocale>>
switchVars == <<selectExists, selectValue, selectDisabled, htmlLang, htmlDir, pageLocale,
                vlibrasVisible, liveText, announceTimers, savedLocale, ldCurrentLocale,
                rtlCurrentDirection, formatterLocale, lsCurrentLocale, isChanging,
                languageChanged, chCalls, doc, doc0, excludedElements, rafPending,
                dirCalls, insertions, liveRegionExists, pageHasI18n,
          navLanguage, navLanguages, urlParams, storageDisabled, ldCalls,
          newsCurrentLocale, newsEvents, i18nInit, app, initTimer, clCalls,
          tsCache, tsStorage, translateCalls>>
vars == <<translations, cache, loadingPromises, fetches, ltCalls, now, ticks,
          files, i18nCurrentLocale, tCall,
          loadedFonts, fontLoadingPromises, fontPromises, links, linkInjections,
          fCalls, lCalls, fontStack, flCurrentLocale,
          selectExists, selectValue, selectDisabled, htmlLang, htmlDir, pageLocale,
          vlibrasVisible, liveText, announceTimers, savedLocale, ldCurrentLocale,
          rtlCurrentDirection, formatterLocale, lsCurrentLocale, isChanging,
          languageChanged, chCalls, doc, doc0, excludedElements, rafPending,
          dirCalls, insertions, liveRegionExists, pageHasI18n,
          navLanguage, navLanguages, urlParams, storageDisabled, ldCalls,
          newsCurrentLocale, newsEvents, i18nInit, app, initTimer, clCalls,
          tsCache, tsStorage, translateCalls>>

\* ------------------------------------------------------ JavaScript values
\* Text is a sequence of one-character strings.
NoProps == [x \in {} |-> 0]
JsValue(kind, cs, n, f) == [k |-> kind, s |-> cs, n |-> n, f |-> f]
Undefined == JsValue("undefined", <<>>, 0, NoProps)
Null == JsValue("null", <<>>, 0, NoProps)
Str(cs) == JsValue("string", cs, 0, NoProps)
Num(n) == JsValue("number", <<>>, n, NoProps)
Obj(f) == JsValue("object", <<>>, 0, f)
Func == JsValue("function", <<>>, 0, NoProps)
\* a TypeError thrown out of the call
TypeError == JsValue("TypeError", <<>>, 0, NoProps)

EmptyObject == Obj(NoProps)
LENGTH == <<"l", "e", "n", "g", "t", "h">>
CONSTRUCTOR == <<"c", "o", "n", "s", "t", "r", "u", "c", "t", "o", "r">>
Digit == <<"0", "1", "2", "3", "4", "5", "6", "7", "8", "9">>
WordChars ==
    {"a", "b", "c", "d", "e", "f", "g", "h", "i", "j", "k", "l", "m", "n", "o", "p", "q",
     "r", "s", "t", "u", "v", "w", "x", "y", "z", "A", "B", "C", "D", "E", "F", "G", "H",
     "I", "J", "K", "L", "M", "N", "O", "P", "Q", "R", "S", "T", "U", "V", "W", "X", "Y",
     "Z", "0", "1", "2", "3", "4", "5", "6", "7", "8", "9", "_"}

\* value[seg] as the optional chaining current?.[key] reads it: own keys of an
\* object, then what the value inherits ("constructor" on every value, "length"
\* and the index "0" on a string); undefined and null give undefined.
GetProp(v, seg) ==
    CASE v.k \in {"undefined", "null", "TypeError"} -> Undefined
      [] v.k = "object" /\ seg \in DOMAIN v.f -> v.f[seg]
      [] seg = CONSTRUCTOR -> Func
      [] v.k = "string" /\ seg = LENGTH -> Num(Len(v.s))
      [] v.k = "string" /\ seg = <<"0">> /\ Len(v.s) > 0 -> Str(<<v.s[1]>>)
      [] v.k = "function" /\ seg = LENGTH -> Num(1)
      [] OTHER -> Undefined

\* String(value), for the values a replacement callback returns
RECURSIVE Decimal(_)
Decimal(n) == IF n < 10 THEN <<Digit[n + 1]>> ELSE Decimal(n \div 10) \o <<Digit[(n % 10) + 1]>>
JsString(v) ==
    CASE v.k = "string" -> v.s
      [] v.k = "number" -> Decimal(v.n)
      [] v.k = "function" -> <<"f", "u", "n", "c", "t", "i", "o", "n", " ", "O", "b", "j",
                               "e", "c", "t", "(", ")", " ", "{", " ", "[", "n", "a", "t",
                               "i", "v", "e", " ", "c", "o", "d", "e", "]", " ", "}">>
      [] v.k = "object" -> <<"[", "o", "b", "j", "e", "c", "t", " ", "O", "b", "j", "e",
                             "c", "t", "]">>
      [] OTHER -> <<"n", "u", "l", "l">>

\* path.split('.')
RECURSIVE SplitFrom(_, _, _)
SplitFrom(cs, i, cur) ==
    IF i > Len(cs) THEN <<cur>>
    ELSE IF cs[i] = "." THEN <<cur>> \o SplitFrom(cs, i + 1, <<>>)
    ELSE SplitFrom(cs, i + 1, Append(cur, cs[i]))
Split(cs) == SplitFrom(cs, 1, <<>>)

\* ------------------------------------------------------------------- I18n
NotLoaded == Undefined
NoEntry == [has |-> FALSE, timestamp |-> 0]
Pending == [st |-> "pending", bundle |-> "-"]
Resolved(b) == [st |-> "resolved", bundle |-> b]
Rejected == [st |-> "rejected", bundle |-> "-"]

\* the document the server holds for a locale (locales/<locale>.json)
FileOf(L) == files[L]
\* the documents of the runs that do not look into them: { locale: L }
DefaultFiles == [L \in SUPPORTED_LOCALES |-> Obj(<<"locale">> :> Str(<<L>>))]

\* if (this.loadingPromises.has(locale))
IsLoading_Unguarded(lp, L) == FALSE
IsLoading(lp, L) == lp[L] # 0

\* getFromCache without the age test
GetFromCache_KeepStale(c, L, t) ==
    IF ~c[L].has THEN [cache |-> c, hit |-> FALSE] ELSE [cache |-> c, hit |-> TRUE]

\* getFromCache: the entry is dropped when older than cacheExpiration
CacheFresh(c, L, t) == c[L].has /\ ~(t - c[L].timestamp > cacheExpiration)
GetFromCache(c, L, t) ==
    IF ~c[L].has THEN [cache |-> c, hit |-> FALSE]
    ELSE IF t - c[L].timestamp > cacheExpiration
         THEN [cache |-> [c EXCEPT ![L] = NoEntry], hit |-> FALSE]
         ELSE [cache |-> c, hit |-> TRUE]

\* saveToCache
SaveToCache(c, L, t) == [c EXCEPT ![L] = [has |-> TRUE, timestamp |-> t]]

\* The synchronous part of loadTranslations(L), up to its first await, on the
\* I18n state s = [translations, cache, loadingPromises, fetches].
\* kind: "joined" (returns the pending promise), "cached", "fetch" (new fetch).
LoadTranslationsSync(s, L, t) ==
    IF IsLoading(s.loadingPromises, L)
    THEN [s |-> s, kind |-> "joined", f |-> s.loadingPromises[L]]
    ELSE LET g == GetFromCache(s.cache, L, t) IN
         IF g.hit
         THEN [s |-> [s EXCEPT !.translations[L] = FileOf(L)],
               kind |-> "cached", f |-> 0]
         ELSE LET f == Len(s.fetches) + 1 IN
              [s |-> [s EXCEPT !.cache = g.cache,
                               !.fetches = Append(@, [locale |-> L, st |-> "pending"]),
                               !.loadingPromises[L] = f],
               kind |-> "fetch", f |-> f]

I18nState == [translations |-> translations, cache |-> cache,
              loadingPromises |-> loadingPromises, fetches |-> fetches]

SetI18nState(s) ==
    /\ translations' = s.translations
    /\ cache' = s.cache
    /\ loadingPromises' = s.loadingPromises
    /\ fetches' = s.fetches

PendingFetches(fs, L) == {f \in 1..Len(fs) : fs[f].locale = L /\ fs[f].st = "pending"}

\* a loadTranslations call record after the synchronous part r of a call for
\* locale `cur` made on behalf of the request for `locale`
CallAfterSync(call, r, cur) ==
    [call EXCEPT !.cur = cur,
                 !.f = r.f,
                 !.pc = CASE r.kind = "joined" -> "joined"
                          [] r.kind = "cached" -> "done"
                          [] OTHER -> "awaiting",
                 !.result = IF r.kind = "cached" THEN Resolved(FileOf(cur)) ELSE Pending]

\* i18n.loadTranslations(L) is called
CallLoadTranslations(L) ==
    /\ Len(ltCalls) < MaxLtCalls
    /\ Len(fetches) < MaxFetches
    /\ LET r == LoadTranslationsSync(I18nState, L, now)
           pend == PendingFetches(fetches, L)
           call == [locale |-> L, cur |-> L, f |-> 0, pc |-> "start", result |-> Pending,
                    during |-> IF pend = {} THEN 0 ELSE CHOOSE f \in pend : TRUE,
                    primaryFailed |-> FALSE, fellBack |-> FALSE]
       IN /\ SetI18nState(r.s)
          /\ ltCalls' = Append(ltCalls, CallAfterSync(call, r, L))
    /\ UNCHANGED <<now, ticks, files, i18nCurrentLocale, tCall>>
    /\ UNCHANGED fontVars
    /\ UNCHANGED switchVars

\* The continuation of the call that issued fetch f (lines 68-86), run when the
\* fetch settles: on success store and cache the bundle; on failure call
\* loadTranslations(fallbackLocale) unless L is the fallback; finally forget
\* the pending promise of L.
ResumeAfterFetch(s, call, ok, t) ==
    LET L == call.cur IN
    IF ok
    THEN [s |-> [s EXCEPT !.translations[L] = FileOf(L),
                          !.cache = SaveToCache(@, L, t),
                          !.loadingPromises[L] = 0],
          call |-> [call EXCEPT !.pc = "done", !.result = Resolved(FileOf(L))]]
    ELSE IF L # fallbackLocale
         THEN LET r == LoadTranslationsSync(s, fallbackLocale, t) IN
              [s |-> [r.s EXCEPT !.loadingPromises[L] = 0],
               call |-> [CallAfterSync(call, r, fallbackLocale)
                            EXCEPT !.primaryFailed = TRUE, !.fellBack = TRUE]]
         ELSE [s |-> [s EXCEPT !.loadingPromises[L] = 0],
               call |-> [call EXCEPT !.pc = "done", !.result = Rejected,
                                     !.primaryFailed = TRUE]]

\* fetch f settles (the response arrives or fails) and the awaiting call resumes
FetchSettle(f, ok) ==
    /\ fetches[f].st = "pending"
    /\ LET s0 == [I18nState EXCEPT !.fetches[f].st = IF ok THEN "ok" ELSE "fail"]
           owners == {c \in 1..Len(ltCalls) : ltCalls[c].pc = "awaiting" /\ ltCalls[c].f = f}
       IN IF owners = {}
          THEN /\ SetI18nState(s0)
               /\ UNCHANGED ltCalls
          ELSE LET c == CHOOSE c \in owners : TRUE
                   r == ResumeAfterFetch(s0, ltCalls[c], ok, now)
               IN /\ SetI18nState(r.s)
                  /\ ltCalls' = [ltCalls EXCEPT ![c] = r.call]
    /\ UNCHANGED <<now, ticks, files, i18nCurrentLocale, tCall>>
    /\ UNCHANGED fontVars
    /\ UNCHANGED switchVars

\* a call that returned the pending promise of another call settles with it
JoinResume(c) ==
    /\ ltCalls[c].pc = "joined"
    /\ fetches[ltCalls[c].f].st # "pending"
    /\ ltCalls' = [ltCalls EXCEPT ![c].pc = "done",
                       ![c].result = IF fetches[ltCalls[c].f].st = "ok"
                                     THEN Resolved(FileOf(fetches[ltCalls[c].f].locale))
                                     ELSE Rejected,
                       ![c].primaryFailed = @ \/ fetches[ltCalls[c].f].st = "fail"]
    /\ UNCHANGED <<translations, cache, loadingPromises, fetches, now, ticks>>
    /\ UNCHANGED <<files, i18nCurrentLocale, tCall>>
    /\ UNCHANGED fontVars
    /\ UNCHANGED switchVars

\* clearCache
ClearCache ==
    /\ \E L \in ModelLocales : cache[L].has
    /\ cache' = [L \in SUPPORTED_LOCALES |-> NoEntry]
    /\ UNCHANGED <<translations, loadingPromises, fetches, ltCalls, now, ticks>>
    /\ UNCHANGED <<files, i18nCurrentLocale, tCall>>
    /\ UNCHANGED fontVars
    /\ UNCHANGED switchVars

\* time passes
Tick(d) ==
    /\ ticks < MaxTicks
    /\ now' = now + d
    /\ ticks' = ticks + 1
    /\ UNCHANGED <<translations, cache, loadingPromises, fetches, ltCalls>>
    /\ UNCHANGED <<files, i18nCurrentLocale, tCall>>
    /\ UNCHANGED fontVars
    /\ UNCHANGED switchVars

\* _getNestedValue(obj, path)
RECURSIVE Walk(_, _)
Walk(v, segs) == IF segs = <<>> THEN v ELSE Walk(GetProp(v, Head(segs)), Tail(segs))
GetNestedValue(obj, path) == Walk(obj, Split(path))

\* first index from i on that holds no word character
RECURSIVE WordEnd(_, _)
WordEnd(cs, i) == IF i <= Len(cs) /\ cs[i] \in WordChars THEN WordEnd(cs, i + 1) ELSE i

\* text.replace(/\{\{(\w+)\}\}/g, (match, key) => params[key] !== undefined ? params[key] : match)
RECURSIVE ReplaceFrom(_, _, _)
ReplaceFrom(cs, i, params) ==
    IF i > Len(cs) THEN <<>>
    ELSE LET j == WordEnd(cs, i + 2) IN
         IF /\ i + 1 <= Len(cs) /\ cs[i] = "{" /\ cs[i + 1] = "{"
            /\ j > i + 2
            /\ j + 1 <= Len(cs) /\ cs[j] = "}" /\ cs[j + 1] = "}"
         THEN LET p == GetProp(params, SubSeq(cs, i + 2, j - 1))
                  out == IF p # Undefined THEN JsString(p) ELSE SubSeq(cs, i, j + 1)
              IN out \o ReplaceFrom(cs, j + 2, params)
         ELSE <<cs[i]>> \o ReplaceFrom(cs, i + 1, params)

\* _interpolate(text, params): text.replace is not a function unless text is a string
Interpolate(text, params) ==
    IF text.k = "string" THEN Str(ReplaceFrom(text.s, 1, params)) ELSE TypeError

\* the locale argument left out (locale = null)
NoLocale == "null"

\* t(key, params, locale) on the loaded bundles tr with current locale cur
T(tr, cur, key, params, locale) ==
    LET loc == IF locale = NoLocale THEN cur ELSE locale
        own == IF tr[loc] = NotLoaded THEN Undefined ELSE GetNestedValue(tr[loc], key)
        fb == IF own = Undefined /\ loc # fallbackLocale /\ tr[fallbackLocale] # NotLoaded
              THEN GetNestedValue(tr[fallbackLocale], key)
              ELSE own
    IN IF tr[loc] = NotLoaded THEN Str(key)
       ELSE IF fb = Undefined THEN Str(key)
       ELSE IF DOMAIN params.f # {} THEN Interpolate(fb, params)
       ELSE fb

\* i18n.t(key, params, locale) is called
CallT ==
    /\ tCall.pc = "ready"
    /\ tCall' = [tCall EXCEPT !.pc = "done",
                    !.result = T(translations, i18nCurrentLocale, tCall.key,
                                 tCall.params, tCall.locale)]
    /\ UNCHANGED <<translations, cache, loadingPromises, fetches, ltCalls, now, ticks,
                   files, i18nCurrentLocale>>
    /\ UNCHANGED fontVars
    /\ UNCHANGED switchVars

\* bundles, keys and params of the bounded runs of t
sA == <<"a">>
sB == <<"b">>
sN == <<"n">>
SampleBundles ==
    { EmptyObject,
      Obj(sA :> Str(<<"h", "i">>)),
      Obj(sA :> Obj(sB :> Str(<<"{", "{", "n", "}", "}", "!">>))),
      Obj(sA :> Obj(LENGTH :> Str(<<"l", "e", "n">>))),
      Obj(sA :> Obj(sB :> Str(<<"y", "o">>)) @@ CONSTRUCTOR :> Str(<<"m", "k">>)),
      Obj(sB :> Str(<<"x", " ", "{", "{", "m", "}", "}">>)),
      Obj(sA :> Str(<<"{", "{", "f", "-", "n", "}", "}", " ", "{", "{", "c", "o", "n", "s",
                      "t", "r", "u", "c", "t", "o", "r", "}", "}">>)) }
SampleKeys ==
    { sA, sB, <<"a", ".", "b">>, sA \o <<".">> \o LENGTH, <<"a", ".", "b", ".", "b">>,
      CONSTRUCTOR, <<"c">> }
SampleParams ==
    { EmptyObject, Obj(sN :> Str(<<"A", "n", "a">>)), Obj(sN :> Num(3)),
      Obj(<<"f", "-", "n">> :> Str(<<"{", "{", "n", "}", "}">>)) }
TLocales == {"en", "ar"}

InitT ==
    /\ \E fs \in [TLocales -> SampleBundles], loaded \in SUBSET TLocales :
          /\ files = [L \in SUPPORTED_LOCALES |->
                          IF L \in TLocales THEN fs[L] ELSE EmptyObject]
          /\ translations = [L \in SUPPORTED_LOCALES |->
                                 IF L \in loaded THEN fs[L] ELSE NotLoaded]
    /\ i18nCurrentLocale \in TLocales
    /\ tCall \in [pc : {"ready"}, key : SampleKeys, params : SampleParams,
                  locale : {NoLocale} \cup TLocales, result : {Undefined}]
    /\ cache = [L \in SUPPORTED_LOCALES |-> NoEntry]
    /\ loadingPromises = [L \in SUPPORTED_LOCALES |-> 0]
    /\ fetches = <<>>
    /\ ltCalls = <<>>
    /\ now = 0
    /\ ticks = 0

InitI18n ==
    /\ translations = [L \in SUPPORTED_LOCALES |-> NotLoaded]
    /\ cache = [L \in SUPPORTED_LOCALES |-> NoEntry]
    /\ loadingPromises = [L \in SUPPORTED_LOCALES |-> 0]
    /\ fetches = <<>>
    /\ ltCalls = <<>>
    /\ now = 0
    /\ ticks = 0
    /\ files = DefaultFiles
    /\ i18nCurrentLocale = defaultLocale
    /\ tCall = [pc |-> "idle", key |-> <<>>, params |-> EmptyObject, locale |-> NoLocale,
                result |-> Undefined]

\* ------------------------------------------------------------- FontLoader
\* FONT_CONFIG
WebFonts == {"Noto Sans Arabic", "Noto Sans Devanagari", "Noto Sans JP", "Amiri", "Roboto"}
FontNames == WebFonts \cup {"Segoe UI"}

localeToScript ==
    [L \in SUPPORTED_LOCALES |->
        CASE L = "ar" -> "arabic" [] L = "hi" -> "devanagari"
          [] L = "ja" -> "japanese" [] L = "ru" -> "cyrillic" [] OTHER -> "latin"]

preferredFonts ==
    [L \in SUPPORTED_LOCALES |->
        CASE L = "ar" -> <<"Amiri", "Noto Sans Arabic">>
          [] L = "hi" -> <<"Noto Sans Devanagari">>
          [] L = "ja" -> <<"Noto Sans JP">>
          [] L = "ru" -> <<"Roboto">>
          [] OTHER -> <<"Roboto", "Segoe UI">>]

systemFonts ==
    [sc \in {"latin", "arabic", "devanagari", "japanese", "cyrillic"} |->
        CASE sc = "latin" -> <<"Segoe UI", "Roboto", "Arial", "sans-serif">>
          [] sc = "devanagari" -> <<"Mangal", "Noto Sans Devanagari", "sans-serif">>
          [] sc = "japanese" -> <<"Yu Gothic", "Meiryo", "MS PGothic", "sans-serif">>
          [] OTHER -> <<"Arial", "Tahoma", "sans-serif">>]

getScriptForLocale(L) == IF L \in DOMAIN localeToScript THEN localeToScript[L] ELSE "latin"
getPreferredFonts(L) == IF L \in DOMAIN preferredFonts THEN preferredFonts[L] ELSE <<"Roboto">>
getSystemFallbacks(sc) == IF sc \in DOMAIN systemFonts THEN systemFonts[sc] ELSE systemFonts["latin"]

\* locales whose fonts the environment asks for in the bounded runs
FontLocales == {"pt-BR", "ar"}
\* fonts the environment loads directly
DirectFonts == {"Amiri", "Roboto", "Segoe UI"}

isFontLoaded(loaded, name) == name \in loaded

\* if (this.loadingPromises.has(fontName))
HasLoadingPromise_Unguarded(lp, name) == FALSE
HasLoadingPromise(lp, name) == lp[name] # 0

PendingFontPromises(ps, name) ==
    {q \in 1..Len(ps) : ps[q].font = name /\ ps[q].stage # "done"}

FontState == [loadedFonts |-> loadedFonts, fontLoadingPromises |-> fontLoadingPromises,
              fontPromises |-> fontPromises, links |-> links,
              linkInjections |-> linkInjections, fCalls |-> fCalls]

SetFontState(s) ==
    /\ loadedFonts' = s.loadedFonts
    /\ fontLoadingPromises' = s.fontLoadingPromises
    /\ fontPromises' = s.fontPromises
    /\ links' = s.links
    /\ linkInjections' = s.linkInjections
    /\ fCalls' = s.fCalls

\* _loadFontCSS up to the point where it waits: an existing <link> with the
\* font's URL resolves at once (whatever became of that link), otherwise a
\* <link> is appended and its load/error event is awaited.
LoadFontCSS(s, name) ==
    IF s.links[name] # "none"
    THEN [s |-> s, stage |-> "wait"]
    ELSE [s |-> [s EXCEPT !.links[name] = "loading", !.linkInjections[name] = @ + 1],
          stage |-> "css"]

\* The synchronous part of loadFont(name): the call record is appended to
\* s.fCalls; a new loadPromise is created unless the font is loaded, loading
\* or not configured.
LoadFontSync(s, name, parent) ==
    LET pend == PendingFontPromises(s.fontPromises, name)
        call == [font |-> name, p |-> 0, pc |-> "done", result |-> FALSE, parent |-> parent,
                 during |-> IF pend = {} THEN 0 ELSE CHOOSE q \in pend : TRUE]
    IN IF isFontLoaded(s.loadedFonts, name)
       THEN [s EXCEPT !.fCalls = Append(@, [call EXCEPT !.result = TRUE])]
       ELSE IF HasLoadingPromise(s.fontLoadingPromises, name)
       THEN [s EXCEPT !.fCalls = Append(@, [call EXCEPT !.pc = "await",
                                                        !.p = s.fontLoadingPromises[name]])]
       ELSE IF name \notin WebFonts
       THEN [s EXCEPT !.fCalls = Append(@, call)]
       ELSE LET r == LoadFontCSS(s, name)
                q == Len(s.fontPromises) + 1
            IN [r.s EXCEPT !.fontPromises = Append(@, [font |-> name, stage |-> r.stage,
                                                      value |-> FALSE]),
                           !.fontLoadingPromises[name] = q,
                           !.fCalls = Append(@, [call EXCEPT !.pc = "await", !.p = q])]

\* loadPromise q settles with `value`: the call that created it deletes the
\* pending entry of the font, and every call awaiting q gets the value.
SettleFontPromise(s, q, value) ==
    [s EXCEPT !.fontPromises[q].stage = "done",
              !.fontPromises[q].value = value,
              !.fontLoadingPromises[s.fontPromises[q].font] = 0,
              !.fCalls = [c \in 1..Len(s.fCalls) |->
                             IF s.fCalls[c].pc = "await" /\ s.fCalls[c].p = q
                             THEN [s.fCalls[c] EXCEPT !.pc = "done", !.result = value]
                             ELSE s.fCalls[c]]]

\* loadFonts(names): fontNames.map(name => this.loadFont(name))
RECURSIVE LoadFontsSync(_, _, _)
LoadFontsSync(s, names, parent) ==
    IF names = <<>> THEN s
    ELSE LoadFontsSync(LoadFontSync(s, Head(names), parent), Tail(names), parent)

\* window.loadFont(name)
CallLoadFont(name) ==
    /\ Cardinality({c \in 1..Len(fCalls) : fCalls[c].parent = 0}) < MaxFontCalls
    /\ SetFontState(LoadFontSync(FontState, name, 0))
    /\ UNCHANGED <<lCalls, fontStack, flCurrentLocale>>
    /\ UNCHANGED i18nVars
    /\ UNCHANGED switchVars

\* the load or error event of the <link> of a font
CssSettle(name, ok) ==
    /\ links[name] = "loading"
    /\ LET s0 == [FontState EXCEPT !.links[name] = IF ok THEN "loaded" ELSE "error"]
           qs == {q \in 1..Len(fontPromises) :
                     fontPromises[q].font = name /\ fontPromises[q].stage = "css"}
       IN IF qs = {}
          THEN SetFontState(s0)
          ELSE LET q == CHOOSE q \in qs : TRUE IN
               IF ok
               THEN SetFontState([s0 EXCEPT !.fontPromises[q].stage = "wait"])
               ELSE SetFontState(SettleFontPromise(s0, q, FALSE))
    /\ UNCHANGED <<lCalls, fontStack, flCurrentLocale>>
    /\ UNCHANGED i18nVars
    /\ UNCHANGED switchVars

\* _waitForFontLoad returns (document.fonts.load settled either way, or the
\* fixed timeout elapsed): the font is marked as loaded
FontReady(q) ==
    /\ fontPromises[q].stage = "wait"
    /\ SetFontState(SettleFontPromise(
           [FontState EXCEPT !.loadedFonts = @ \cup {fontPromises[q].font}], q, TRUE))
    /\ UNCHANGED <<lCalls, fontStack, flCurrentLocale>>
    /\ UNCHANGED i18nVars
    /\ UNCHANGED switchVars

\* applyFonts: the loaded preferred fonts, then the system fallbacks
FontStack_Unfiltered(L, loaded) ==
    getPreferredFonts(L) \o getSystemFallbacks(getScriptForLocale(L))
FontStack(L, loaded) ==
    SelectSeq(getPreferredFonts(L), LAMBDA f : isFontLoaded(loaded, f))
        \o getSystemFallbacks(getScriptForLocale(L))

\* The synchronous part of loadFontsForLocale(L) on font state s: one loadFont
\* call per preferred font; returns the state and the new call record.
LoadFontsForLocaleSync(s, L, id) ==
    LET s1 == LoadFontsSync(s, getPreferredFonts(L), id) IN
    [s |-> s1,
     call |-> [locale |-> L, pc |-> "loading", result |-> FALSE,
               subs |-> (Len(s.fCalls) + 1)..Len(s1.fCalls)]]

\* window.FontLoader.loadFontsForLocale(L)
CallLoadFontsForLocale(L) ==
    /\ Len(lCalls) < MaxLocaleLoads
    /\ LET r == LoadFontsForLocaleSync(FontState, L, Len(lCalls) + 1) IN
        /\ SetFontState(r.s)
        /\ lCalls' = Append(lCalls, r.call)
    /\ flCurrentLocale' = L
    /\ UNCHANGED fontStack
    /\ UNCHANGED i18nVars
    /\ UNCHANGED switchVars

\* Promise.allSettled of the loadFont calls has settled: applyFonts, return true
LocaleFontsSettled(l) ==
    /\ lCalls[l].pc = "loading"
    /\ \A c \in lCalls[l].subs : fCalls[c].pc = "done"
    /\ fontStack' = FontStack(lCalls[l].locale, loadedFonts)
    /\ lCalls' = [lCalls EXCEPT ![l].pc = "done", ![l].result = TRUE]
    /\ UNCHANGED <<loadedFonts, fontLoadingPromises, fontPromises, links, linkInjections,
                   fCalls, flCurrentLocale>>
    /\ UNCHANGED i18nVars
    /\ UNCHANGED switchVars

\* FontLoader.clearCache
ClearFontCache ==
    /\ loadedFonts # {}
    /\ loadedFonts' = {}
    /\ UNCHANGED <<fontLoadingPromises, fontPromises, links, linkInjections,
                   fCalls, lCalls, fontStack, flCurrentLocale>>
    /\ UNCHANGED i18nVars
    /\ UNCHANGED switchVars

InitFont ==
    /\ loadedFonts = {}
    /\ fontLoadingPromises = [f \in FontNames |-> 0]
    /\ fontPromises = <<>>
    /\ links = [f \in WebFonts |-> "none"]
    /\ linkInjections = [f \in WebFonts |-> 0]
    /\ fCalls = <<>>
    /\ lCalls = <<>>
    /\ fontStack = <<>>
    /\ flCurrentLocale = "pt-BR"

\* ------------------- LocaleDetector, RTLSupport, IntlFormatter, document
NoValue == ""
rtlLocales == {"ar", "he", "fa", "ur"}

\* getLocaleInfo(locale).dir
LocaleDir(L) == IF L = "ar" THEN "rtl" ELSE "ltr"
\* RTLSupport.getDirection
getDirection(L) == IF L \in rtlLocales THEN "rtl" ELSE "ltr"

\* what the live region is asked to say
NoMessage == [kind |-> "none", locale |-> "-"]
ErrorMessage == [kind |-> "error", locale |-> "-"]
getChangeAnnouncement(L) == [kind |-> "changed", locale |-> L]

SwitchState ==
    [selectValue |-> selectValue, selectDisabled |-> selectDisabled, htmlLang |-> htmlLang,
     htmlDir |-> htmlDir, vlibrasVisible |-> vlibrasVisible, liveText |-> liveText,
     announceTimers |-> announceTimers, savedLocale |-> savedLocale,
     ldCurrentLocale |-> ldCurrentLocale, rtlCurrentDirection |-> rtlCurrentDirection,
     formatterLocale |-> formatterLocale, lsCurrentLocale |-> lsCurrentLocale,
     isChanging |-> isChanging, languageChanged |-> languageChanged,
     doc |-> doc, excludedElements |-> excludedElements, rafPending |-> rafPending,
     dirCalls |-> dirCalls, insertions |-> insertions,
     liveRegionExists |-> liveRegionExists, ldCalls |-> ldCalls,
     newsCurrentLocale |-> newsCurrentLocale, newsEvents |-> newsEvents,
     i18nInit |-> i18nInit, app |-> app, initTimer |-> initTimer, clCalls |-> clCalls,
     tsCache |-> tsCache, tsStorage |-> tsStorage, translateCalls |-> translateCalls,
     added |-> FALSE]

SetSwitchState(s) ==
    /\ selectValue' = s.selectValue
    /\ selectDisabled' = s.selectDisabled
    /\ htmlLang' = s.htmlLang
    /\ htmlDir' = s.htmlDir
    /\ vlibrasVisible' = s.vlibrasVisible
    /\ liveText' = s.liveText
    /\ announceTimers' = s.announceTimers
    /\ savedLocale' = s.savedLocale
    /\ ldCurrentLocale' = s.ldCurrentLocale
    /\ rtlCurrentDirection' = s.rtlCurrentDirection
    /\ formatterLocale' = s.formatterLocale
    /\ lsCurrentLocale' = s.lsCurrentLocale
    /\ isChanging' = s.isChanging
    /\ languageChanged' = s.languageChanged
    /\ doc' = s.doc
    /\ excludedElements' = s.excludedElements
    /\ rafPending' = s.rafPending
    /\ dirCalls' = s.dirCalls
    /\ insertions' = s.insertions
    /\ liveRegionExists' = s.liveRegionExists
    /\ selectExists' = selectExists
    /\ doc0' = doc0
    /\ pageHasI18n' = pageHasI18n
    /\ ldCalls' = s.ldCalls
    /\ newsCurrentLocale' = s.newsCurrentLocale
    /\ newsEvents' = s.newsEvents
    /\ i18nInit' = s.i18nInit
    /\ app' = s.app
    /\ initTimer' = s.initTimer
    /\ clCalls' = s.clCalls
    /\ tsCache' = s.tsCache
    /\ tsStorage' = s.tsStorage
    /\ translateCalls' = s.translateCalls
    /\ UNCHANGED <<navLanguage, navLanguages, urlParams, storageDisabled>>

\* ---------------------------------------------------------- LocaleDetector
UpperCase == <<"A", "B", "C", "D", "E", "F", "G", "H", "I", "J", "K", "L", "M", "N", "O", "P",
               "Q", "R", "S", "T", "U", "V", "W", "X", "Y", "Z">>
LowerCase == <<"a", "b", "c", "d", "e", "f", "g", "h", "i", "j", "k", "l", "m", "n", "o", "p",
               "q", "r", "s", "t", "u", "v", "w", "x", "y", "z">>

\* String.prototype.toLowerCase
ToLowerChar(c) ==
    IF \E i \in 1..26 : UpperCase[i] = c
    THEN LowerCase[CHOOSE i \in 1..26 : UpperCase[i] = c]
    ELSE c
ToLowerCase(cs) == [i \in 1..Len(cs) |-> ToLowerChar(cs[i])]

\* String.prototype.trim
RECURSIVE TrimStart(_)
TrimStart(cs) == IF cs # <<>> /\ Head(cs) = " " THEN TrimStart(Tail(cs)) ELSE cs
RECURSIVE TrimEnd(_)
TrimEnd(cs) ==
    IF cs # <<>> /\ cs[Len(cs)] = " " THEN TrimEnd(SubSeq(cs, 1, Len(cs) - 1)) ELSE cs
Trim(cs) == TrimEnd(TrimStart(cs))

\* locale.replace('_', '-'): the first underscore only
ReplaceFirstUnderscore(cs) ==
    IF \E i \in 1..Len(cs) : cs[i] = "_"
    THEN LET i == CHOOSE i \in 1..Len(cs) : cs[i] = "_" /\ \A j \in 1..(i - 1) : cs[j] # "_"
         IN [cs EXCEPT ![i] = "-"]
    ELSE cs

\* the text of the locale codes the program names
LocaleChars ==
    "pt-BR" :> <<"p", "t", "-", "B", "R">> @@
    "en" :> <<"e", "n">> @@
    "es" :> <<"e", "s">> @@
    "ar" :> <<"a", "r">> @@
    "hi" :> <<"h", "i">> @@
    "ja" :> <<"j", "a">> @@
    "ru" :> <<"r", "u">>

\* a value is falsy: undefined, null or the empty string
Falsy(v) == v.k \in {"undefined", "null"} \/ (v.k = "string" /\ v.s = <<>>)

\* normalizeLocale(locale), as text
normalizeLocale(v) ==
    IF Falsy(v) THEN LocaleChars[defaultLocale]
    ELSE LET n == ReplaceFirstUnderscore(ToLowerCase(Trim(v.s))) IN
         IF n = <<"p", "t", "-", "b", "r">> THEN LocaleChars["pt-BR"] ELSE n

\* SUPPORTED_LOCALES.includes(text), and the locale it is
IsSupported(cs) == \E L \in SUPPORTED_LOCALES : LocaleChars[L] = cs
LocaleOf(cs) == CHOOSE L \in SUPPORTED_LOCALES : LocaleChars[L] = cs

\* LOCALE_FALLBACKS
LOCALE_FALLBACKS ==
    <<"p", "t">> :> "pt-BR" @@
    <<"p", "t", "-", "P", "T">> :> "pt-BR" @@
    <<"e", "n", "-", "U", "S">> :> "en" @@
    <<"e", "n", "-", "G", "B">> :> "en" @@
    <<"e", "s", "-", "E", "S">> :> "es" @@
    <<"e", "s", "-", "M", "X">> :> "es" @@
    <<"a", "r", "-", "S", "A">> :> "ar" @@
    <<"a", "r", "-", "E", "G">> :> "ar" @@
    <<"h", "i", "-", "I", "N">> :> "hi" @@
    <<"j", "a", "-", "J", "P">> :> "ja" @@
    <<"r", "u", "-", "R", "U">> :> "ru" @@
    <<"z", "h">> :> "en" @@
    <<"f", "r">> :> "en" @@
    <<"d", "e">> :> "en"

\* the Object function, which every object literal inherits as `constructor`
ObjectFunction == "[Function: Object]"
\* String(Object), what localStorage.setItem stores for it
ObjectFunctionText == "function Object() { [native code] }"

\* LOCALE_FALLBACKS[text]: an own key, else an inherited property, else
\* undefined (NoValue)
FallbackOf(cs) ==
    IF cs \in DOMAIN LOCALE_FALLBACKS THEN LOCALE_FALLBACKS[cs]
    ELSE IF cs = CONSTRUCTOR THEN ObjectFunction
    ELSE NoValue

\* normalizedLang.split('-')[0]
BaseCode(cs) ==
    IF \E i \in 1..Len(cs) : cs[i] = "-"
    THEN LET i == CHOOSE i \in 1..Len(cs) : cs[i] = "-" /\ \A j \in 1..(i - 1) : cs[j] # "-"
         IN SubSeq(cs, 1, i - 1)
    ELSE cs

\* detectBrowserLocale on browserLanguages = [navigator.language, ...navigator.languages]
RECURSIVE detectBrowserLocale(_)
detectBrowserLocale(langs) ==
    IF langs = <<>> THEN defaultLocale
    ELSE LET n == normalizeLocale(Head(langs)) IN
         IF IsSupported(n) THEN LocaleOf(n)
         ELSE IF FallbackOf(n) # NoValue THEN FallbackOf(n)
         ELSE IF FallbackOf(BaseCode(n)) # NoValue THEN FallbackOf(BaseCode(n))
         ELSE detectBrowserLocale(Tail(langs))

\* [navigator.language, ...(navigator.languages || [])]
BrowserLanguages == <<navLanguage>> \o navLanguages

\* getLocaleFromURL: params.get('lang') || params.get('locale'); NoValue is null
getLocaleFromURL ==
    LET urlLocale == IF Falsy(urlParams.lang) THEN urlParams.locale ELSE urlParams.lang IN
    IF ~Falsy(urlLocale) /\ IsSupported(normalizeLocale(urlLocale))
    THEN LocaleOf(normalizeLocale(urlLocale))
    ELSE NoValue

\* getSavedLocale: a thrown storage error is caught and gives null
getSavedLocale(s) ==
    IF storageDisabled THEN NoValue
    ELSE IF s.savedLocale # NoValue /\ s.savedLocale \in SUPPORTED_LOCALES THEN s.savedLocale
    ELSE NoValue

\* what localStorage.setItem stores for a value
StoredText(v) == IF v = ObjectFunction THEN ObjectFunctionText ELSE v

\* saveLocale: a thrown storage error is caught
saveLocale(s, L) == IF storageDisabled THEN s ELSE [s EXCEPT !.savedLocale = StoredText(L)]

\* detect(): the locale and the state it leaves
detect(s) ==
    IF getLocaleFromURL # NoValue
    THEN [s |-> saveLocale([s EXCEPT !.ldCurrentLocale = getLocaleFromURL], getLocaleFromURL),
          locale |-> getLocaleFromURL]
    ELSE IF getSavedLocale(s) # NoValue
    THEN [s |-> [s EXCEPT !.ldCurrentLocale = getSavedLocale(s)], locale |-> getSavedLocale(s)]
    ELSE LET d == detectBrowserLocale(BrowserLanguages) IN
         [s |-> saveLocale([s EXCEPT !.ldCurrentLocale = d], d), locale |-> d]

\* window.getLocale()
getLocale == IF ldCurrentLocale = NoValue THEN defaultLocale ELSE ldCurrentLocale


\* ------------------------------------------- RTLSupport element adjustments
\* One element of each kind that adjustElements looks for. `noRtl` stands for
\* the element or an ancestor below <html> matching an exclude selector
\* (.no-rtl, .ltr-only, code, pre, .code-block).
Sides == {"none", "left", "right"}
Flip(side) == CASE side = "left" -> "right" [] side = "right" -> "left" [] OTHER -> side

\* isExcluded(element): the cache, then element.matches / element.closest of the
\* exclude selectors; '[dir="ltr"]' is matched by the element itself and by
\* <html dir="ltr"> above it
isExcluded(s, e, ownDir) ==
    \/ e \in s.excludedElements
    \/ s.doc[e].noRtl
    \/ ownDir = "ltr"
    \/ s.htmlDir = "ltr"

\* the cache after isExcluded(element) returned true
Exclude(s, e) == [s EXCEPT !.excludedElements = @ \cup {e}]

adjustIcons(s) ==
    LET ic == s.doc.icon IN
    IF isExcluded(s, "icon", "none") THEN Exclude(s, "icon")
    ELSE IF s.rtlCurrentDirection = "rtl"
    THEN [s EXCEPT !.doc.icon.arrow = Flip(@),
                   !.doc.icon.chevron = Flip(@),
                   !.doc.icon.inverted = @ \/ ic.arrow # "none" \/ ic.chevron # "none"]
    ELSE IF ic.inverted
    THEN [s EXCEPT !.doc.icon.arrow = Flip(@),
                   !.doc.icon.chevron = Flip(@),
                   !.doc.icon.inverted = FALSE]
    ELSE s

adjustTooltips(s) ==
    LET tt == s.doc.tooltip IN
    IF isExcluded(s, "tooltip", "none") THEN Exclude(s, "tooltip")
    ELSE IF s.rtlCurrentDirection = "rtl"
    THEN IF tt.position \in {"left", "right"}
         THEN [s EXCEPT !.doc.tooltip.position = Flip(@),
                        !.doc.tooltip.original = tt.position]
         ELSE s
    ELSE IF tt.original # "none"
    THEN [s EXCEPT !.doc.tooltip.position = tt.original,
                   !.doc.tooltip.original = "none"]
    ELSE s

\* classList.replace(old, new) does nothing when old is absent
adjustDropdowns(s) ==
    LET dd == s.doc.dropdown IN
    IF isExcluded(s, "dropdown", "none") THEN Exclude(s, "dropdown")
    ELSE IF s.rtlCurrentDirection = "rtl"
    THEN IF dd.align = "right"
         THEN [s EXCEPT !.doc.dropdown.align = "left", !.doc.dropdown.swapped = TRUE]
         ELSE s
    ELSE IF dd.swapped
    THEN [s EXCEPT !.doc.dropdown.align = IF @ = "left" THEN "right" ELSE @,
                   !.doc.dropdown.swapped = FALSE]
    ELSE s

adjustModals(s) ==
    IF isExcluded(s, "modal", s.doc.modal.dir) THEN Exclude(s, "modal")
    ELSE [s EXCEPT !.doc.modal.dir = s.rtlCurrentDirection]

\* the separator of a breadcrumb: "/" <-> "\\", ">" <-> "<"
Mirror(text) ==
    CASE text = "/" -> "\\" [] text = ">" -> "<" [] OTHER -> text
Unmirror(text) ==
    CASE text = "\\" -> "/" [] text = "<" -> ">" [] OTHER -> text

\* assigning textContent puts a new text node into the separator
adjustBreadcrumbs(s) ==
    LET bc == s.doc.breadcrumb IN
    IF isExcluded(s, "breadcrumb", "none") THEN Exclude(s, "breadcrumb")
    ELSE IF s.rtlCurrentDirection = "rtl"
    THEN IF bc.separator \in {"/", ">"}
         THEN [s EXCEPT !.doc.breadcrumb.separator = Mirror(@),
                        !.doc.breadcrumb.inverted = TRUE,
                        !.added = TRUE]
         ELSE s
    ELSE IF bc.inverted
    THEN [s EXCEPT !.doc.breadcrumb.separator = Unmirror(@),
                   !.doc.breadcrumb.inverted = FALSE,
                   !.added = @ \/ (bc.separator \in {"\\", "<"})]
    ELSE s

adjustElements(s) ==
    adjustBreadcrumbs(adjustModals(adjustDropdowns(adjustTooltips(adjustIcons(s)))))

\* the MutationObserver callback at the end of a run that added nodes to the
\* body: while RTL, adjustElements is requested for the next animation frame
ObserverCallback(s) ==
    IF s.added /\ s.rtlCurrentDirection = "rtl"
    THEN [s EXCEPT !.rafPending = @ + 1]
    ELSE s

\* documents of the bounded runs
SampleIcons == [arrow : Sides, chevron : {"none", "left"}, inverted : {FALSE},
                noRtl : BOOLEAN]
SampleTooltips == [position : {"left", "right", "top"}, original : {"none"},
                   noRtl : {FALSE}]
SampleDropdowns == [align : Sides, swapped : {FALSE}, noRtl : {FALSE}]
SampleModals == [dir : {"none", "ltr", "rtl"}, noRtl : {FALSE}]
SampleBreadcrumbs == [separator : {"/", ">", "\\", "|"}, inverted : {FALSE},
                      noRtl : {FALSE}]
SampleDocs == [icon : SampleIcons, tooltip : SampleTooltips, dropdown : SampleDropdowns,
               modal : SampleModals, breadcrumb : SampleBreadcrumbs]
\* the document of the runs that do not vary it
DefaultDoc ==
    [icon |-> [arrow |-> "left", chevron |-> "left", inverted |-> FALSE, noRtl |-> FALSE],
     tooltip |-> [position |-> "left", original |-> "none", noRtl |-> FALSE],
     dropdown |-> [align |-> "right", swapped |-> FALSE, noRtl |-> FALSE],
     modal |-> [dir |-> "none", noRtl |-> FALSE],
     breadcrumb |-> [separator |-> "/", inverted |-> FALSE, noRtl |-> FALSE]]

\* a document whose breadcrumb separator has no mirrored form
PlainDoc == [DefaultDoc EXCEPT !.breadcrumb.separator = "|"]

\* LanguageSwitcher.updateSelectValue
updateSelectValue(s, L) == IF selectExists THEN [s EXCEPT !.selectValue = L] ELSE s

\* LanguageSwitcher.setLoading: nothing happens without the select element
setLoading(s, isLoading) ==
    IF ~selectExists THEN s
    ELSE [s EXCEPT !.selectDisabled = isLoading, !.isChanging = isLoading]

\* LanguageSwitcher.announce: the region (created and appended to the body when
\* missing) is cleared, the message is set by a timeout
announce(s, message) ==
    [s EXCEPT !.liveText = NoMessage, !.announceTimers = Append(@, message),
              !.liveRegionExists = TRUE, !.added = @ \/ ~s.liveRegionExists]

\* the localechanged and i18nchanged listeners of syncWithExternalChanges
SyncWithExternalChanges(s, L) ==
    IF L # s.lsCurrentLocale
    THEN updateSelectValue([s EXCEPT !.lsCurrentLocale = L], L)
    ELSE s

\* window.setLocale: LocaleDetector state, localStorage, applyToDocument, and
\* the localechanged event with its listener
setLocale(s, L) ==
    IF L \in SUPPORTED_LOCALES
    THEN SyncWithExternalChanges(
             [saveLocale([s EXCEPT !.ldCurrentLocale = L], L)
                 EXCEPT !.htmlLang = L, !.htmlDir = LocaleDir(L)], L)
    ELSE s

\* RTLSupport.setDirection: <html dir>, the state, then adjustElements
setDirection(s, direction) ==
    IF s.rtlCurrentDirection = direction
    THEN [s EXCEPT !.dirCalls = Append(@, direction)]
    ELSE adjustElements([s EXCEPT !.htmlDir = direction,
                                  !.rtlCurrentDirection = direction,
                                  !.dirCalls = Append(@, direction)])

\* IntlFormatter.setLocale
FormatterSetLocale(s, L) == [s EXCEPT !.formatterLocale = L]

\* LanguageSwitcher.updateVLibras
updateVLibras(s, L) == [s EXCEPT !.vlibrasVisible = (L = "pt-BR")]

\* I18n.translatePage: the text of the data-i18n elements is replaced
translatePage(s) == [s EXCEPT !.added = @ \/ pageHasI18n]

\* the i18nchanged listeners of RTLSupport, IntlFormatter and LanguageSwitcher
I18nChangedListeners(s, L) ==
    SyncWithExternalChanges(FormatterSetLocale(setDirection(s, getDirection(L)), L), L)

\* the event changeLanguage dispatches: window.dispatchEvent(new
\* CustomEvent('languagechanged'))
LanguageChangedEvent == [type |-> "languagechanged", target |-> "window"]
\* NewsManager.init: document.addEventListener('languageChanged', handler)
NewsManagerListener == [type |-> "languageChanged", target |-> "document"]
\* a listener runs for an event of its type dispatched on its target; event
\* types are case sensitive, and an event dispatched on window travels no
\* further
Hears(listener, event) == listener.type = event.type /\ listener.target = event.target
\* the language-change handler of NewsManager: currentLocale, then render
NewsManagerHandler(s, L) ==
    [s EXCEPT !.newsCurrentLocale = L, !.newsEvents = Append(@, L)]
DispatchLanguageChanged(s, L) ==
    IF Hears(NewsManagerListener, LanguageChangedEvent) THEN NewsManagerHandler(s, L) ELSE s

\* changeLanguage from step 4 to its return, then the finally block
StepsAfterTranslation(s, L) ==
    LET s4 == setDirection(s, getDirection(L))
        s5 == FormatterSetLocale(s4, L)
        s6 == updateVLibras(s5, L)
        s7 == [s6 EXCEPT !.lsCurrentLocale = L]
        s8 == announce(s7, getChangeAnnouncement(L))
        s9 == [s8 EXCEPT !.languageChanged =
                            Append(@, [locale |-> L, previousLocale |-> s8.lsCurrentLocale])]
    IN setLoading(DispatchLanguageChanged(s9, L), FALSE)

\* the catch block of changeLanguage with no finally block after it
ChangeFailed_NoFinally(s) == announce(updateSelectValue(s, s.lsCurrentLocale), ErrorMessage)

\* the catch block of changeLanguage, then the finally block
ChangeFailed(s) ==
    setLoading(announce(updateSelectValue(s, s.lsCurrentLocale), ErrorMessage), FALSE)

\* ------------------------------------------------------- LanguageSwitcher
MaxChanges == 2        \* changeLanguage calls in one run
\* locales the user switches to in the bounded runs
SwitchLocales == {"ar", "en"}

ChangeInProgress(cs) == \E c \in 1..Len(cs) : cs[c].pc # "done"

\* changeLanguage(L) up to its first pending await, on switcher state s
StartChange(s, L) ==
    LET call == [locale |-> L, pc |-> "done", result |-> "false", l |-> 0, lt |-> 0,
                 prev |-> s.lsCurrentLocale, busy |-> ChangeInProgress(chCalls)]
    IN IF s.isChanging
       THEN /\ SetSwitchState(s)
            /\ chCalls' = Append(chCalls, call)
            /\ UNCHANGED <<pageLocale>>
            /\ UNCHANGED fontVars
            /\ UNCHANGED i18nVars
       ELSE IF s.lsCurrentLocale = L
       THEN /\ SetSwitchState(s)
            /\ chCalls' = Append(chCalls, [call EXCEPT !.result = "true"])
            /\ UNCHANGED <<pageLocale>>
            /\ UNCHANGED fontVars
            /\ UNCHANGED i18nVars
       ELSE LET r == LoadFontsForLocaleSync(FontState, L, Len(lCalls) + 1) IN
            /\ SetSwitchState(setLocale(setLoading(s, TRUE), L))
            /\ SetFontState(r.s)
            /\ lCalls' = Append(lCalls, r.call)
            /\ flCurrentLocale' = L
            /\ chCalls' = Append(chCalls, [call EXCEPT !.pc = "fonts", !.result = "pending",
                                                       !.l = Len(lCalls) + 1])
            /\ UNCHANGED <<pageLocale, fontStack>>
            /\ UNCHANGED i18nVars

\* the change event of the select: the user picked the option L
SelectChange(L) ==
    /\ Len(chCalls) < MaxChanges
    /\ selectExists /\ ~selectDisabled
    /\ L # selectValue
    /\ StartChange([SwitchState EXCEPT !.selectValue = L], L)

\* window.changeLanguage(L)
WindowChangeLanguage(L) ==
    /\ Len(chCalls) < MaxChanges
    /\ StartChange(SwitchState, L)

\* i18n.changeLocale(L) from the assignment of currentLocale on (translatePage,
\* i18nchanged and its listeners), then changeLanguage to its return
CommitLocale(c, L) ==
    LET r == LoadFontsForLocaleSync(FontState, L, Len(lCalls) + 1) IN
    /\ i18nCurrentLocale' = L
    /\ pageLocale' = L
    /\ SetFontState(r.s)
    /\ lCalls' = Append(lCalls, r.call)
    /\ flCurrentLocale' = L
    /\ SetSwitchState(ObserverCallback(StepsAfterTranslation(
           I18nChangedListeners(translatePage(SwitchState), L), L)))
    /\ chCalls' = [chCalls EXCEPT ![c].pc = "done", ![c].result = "true"]
    /\ UNCHANGED <<translations, cache, loadingPromises, fetches, ltCalls, now, ticks,
                   files, tCall, fontStack>>

CanResumeAfterFonts(c) == chCalls[c].pc = "fonts" /\ lCalls[chCalls[c].l].pc = "done"

\* loadFontsForLocale has returned: changeLanguage calls i18n.changeLocale
ResumeAfterFonts(c) ==
    /\ CanResumeAfterFonts(c)
    /\ LET L == chCalls[c].locale IN
       IF i18nCurrentLocale = L
       THEN /\ SetSwitchState(ObserverCallback(StepsAfterTranslation(SwitchState, L)))
            /\ chCalls' = [chCalls EXCEPT ![c].pc = "done", ![c].result = "true"]
            /\ UNCHANGED <<pageLocale>>
            /\ UNCHANGED fontVars
            /\ UNCHANGED i18nVars
       ELSE IF translations[L] # NotLoaded
       THEN CommitLocale(c, L)
       ELSE LET r == LoadTranslationsSync(I18nState, L, now)
                pend == PendingFetches(fetches, L)
                call == [locale |-> L, cur |-> L, f |-> 0, pc |-> "start", result |-> Pending,
                         during |-> IF pend = {} THEN 0 ELSE CHOOSE f \in pend : TRUE,
                         primaryFailed |-> FALSE, fellBack |-> FALSE]
            IN /\ SetI18nState(r.s)
               /\ ltCalls' = Append(ltCalls, CallAfterSync(call, r, L))
               /\ chCalls' = [chCalls EXCEPT ![c].pc = "i18n", ![c].lt = Len(ltCalls) + 1]
               /\ SetSwitchState(SwitchState)
               /\ UNCHANGED <<now, ticks, files, i18nCurrentLocale, tCall, pageLocale>>
               /\ UNCHANGED fontVars

CanResumeAfterTranslations(c) ==
    chCalls[c].pc = "i18n" /\ ltCalls[chCalls[c].lt].pc = "done"

\* loadTranslations has settled: changeLocale goes on or throws, and
\* changeLanguage runs to its return
ResumeAfterTranslations(c) ==
    /\ CanResumeAfterTranslations(c)
    /\ IF ltCalls[chCalls[c].lt].result.st = "resolved"
       THEN CommitLocale(c, chCalls[c].locale)
       ELSE /\ SetSwitchState(ObserverCallback(ChangeFailed(SwitchState)))
            /\ chCalls' = [chCalls EXCEPT ![c].pc = "done", ![c].result = "false"]
            /\ UNCHANGED <<pageLocale>>
            /\ UNCHANGED fontVars
            /\ UNCHANGED i18nVars

\* the timeout of announce fires: the text node of the message is added
AnnounceTimer ==
    /\ announceTimers # <<>>
    /\ SetSwitchState(ObserverCallback(
           [SwitchState EXCEPT !.liveText = Head(announceTimers),
                               !.announceTimers = Tail(announceTimers),
                               !.added = TRUE]))
    /\ UNCHANGED <<pageLocale, chCalls>>
    /\ UNCHANGED fontVars
    /\ UNCHANGED i18nVars

\* ------------------------------------------------------------- RTLSupport
MaxDirCalls == 3       \* window.setDirection calls in one run
MaxInsertions == 2     \* nodes inserted by other scripts in one run

\* window.setDirection(direction)
SetDirection(direction) ==
    /\ Len(dirCalls) < MaxDirCalls
    /\ SetSwitchState(ObserverCallback(setDirection(SwitchState, direction)))
    /\ UNCHANGED <<pageLocale, chCalls>>
    /\ UNCHANGED fontVars
    /\ UNCHANGED i18nVars

\* a script appends a node to the body; the observer callback follows
InsertNode ==
    /\ insertions < MaxInsertions
    /\ SetSwitchState(ObserverCallback(
           [SwitchState EXCEPT !.insertions = @ + 1, !.added = TRUE]))
    /\ UNCHANGED <<pageLocale, chCalls>>
    /\ UNCHANGED fontVars
    /\ UNCHANGED i18nVars

\* an animation frame runs one adjustElements requested by the observer
AnimationFrame ==
    /\ rafPending > 0
    /\ SetSwitchState(ObserverCallback(adjustElements(
           [SwitchState EXCEPT !.rafPending = @ - 1])))
    /\ UNCHANGED <<pageLocale, chCalls>>
    /\ UNCHANGED fontVars
    /\ UNCHANGED i18nVars

\* ------------------------------------------------- LocaleDetector, calls
MaxDetectorCalls == 2  \* calls of the LocaleDetector entry points in one run

\* values of navigator.language: every key of LOCALE_FALLBACKS as written and
\* in another letter case or with an underscore, and other codes
SampleLanguages ==
    {Undefined,
     Str(<<"p", "t">>),
     Str(<<"P", "T">>),
     Str(<<"p", "t", "-", "P", "T">>),
     Str(<<"p", "t", "_", "p", "t">>),
     Str(<<"e", "n", "-", "U", "S">>),
     Str(<<"e", "n", "_", "u", "s">>),
     Str(<<"e", "n", "-", "G", "B">>),
     Str(<<"e", "n", "_", "g", "b">>),
     Str(<<"e", "s", "-", "E", "S">>),
     Str(<<"e", "s", "_", "e", "s">>),
     Str(<<"e", "s", "-", "M", "X">>),
     Str(<<"e", "s", "_", "m", "x">>),
     Str(<<"a", "r", "-", "S", "A">>),
     Str(<<"a", "r", "_", "s", "a">>),
     Str(<<"a", "r", "-", "E", "G">>),
     Str(<<"a", "r", "_", "e", "g">>),
     Str(<<"h", "i", "-", "I", "N">>),
     Str(<<"h", "i", "_", "i", "n">>),
     Str(<<"j", "a", "-", "J", "P">>),
     Str(<<"j", "a", "_", "j", "p">>),
     Str(<<"r", "u", "-", "R", "U">>),
     Str(<<"r", "u", "_", "r", "u">>),
     Str(<<"z", "h">>),
     Str(<<"Z", "H">>),
     Str(<<"f", "r">>),
     Str(<<"F", "R">>),
     Str(<<"d", "e">>),
     Str(<<"D", "E">>),
     Str(<<>>),
     Str(<<"x", "x">>),
     Str(<<"c", "o", "n", "s", "t", "r", "u", "c", "t", "o", "r">>),
     Str(<<"j", "a">>),
     Str(<<" ", "e", "n", " ">>),
     Str(<<"p", "t", "_", "B", "R">>)}
\* values of navigator.languages
SampleLanguageLists == {<<>>, <<Str(<<"j", "a">>)>>, <<Str(<<"x", "x">>), Str(<<"e", "s">>)>>}
\* the lang and locale parameters of the query string (Null: absent)
SampleLangParams == {Null, Str(<<>>), Str(<<"E", "N">>), Str(<<"x", "x">>)}
SampleLocaleParams == {Null, Str(<<"h", "i">>)}
\* the localStorage entry when the page loads
SampleSaved == {NoValue, "es", "pt-br"}
\* arguments of window.setLocale
SampleSetLocaleArgs == {"en", "ar", "xx"}

\* LocaleDetector.detect()
Detect ==
    /\ Len(ldCalls) < MaxDetectorCalls
    /\ LET r == detect(SwitchState) IN
       SetSwitchState([r.s EXCEPT !.ldCalls =
           Append(@, [op |-> "detect", arg |-> NoValue, result |-> r.locale,
                      stored |-> r.s.savedLocale, before |-> savedLocale,
                      current |-> r.s.ldCurrentLocale])])
    /\ UNCHANGED <<pageLocale, chCalls>>
    /\ UNCHANGED fontVars
    /\ UNCHANGED i18nVars

\* LocaleDetector.detectBrowserLocale()
DetectBrowserLocale ==
    /\ Len(ldCalls) < MaxDetectorCalls
    /\ SetSwitchState([SwitchState EXCEPT !.ldCalls =
           Append(@, [op |-> "detectBrowserLocale", arg |-> NoValue,
                      result |-> detectBrowserLocale(BrowserLanguages),
                      stored |-> savedLocale, before |-> savedLocale,
                      current |-> ldCurrentLocale])])
    /\ UNCHANGED <<pageLocale, chCalls>>
    /\ UNCHANGED fontVars
    /\ UNCHANGED i18nVars

\* window.setLocale(x)
WindowSetLocale(x) ==
    /\ Len(ldCalls) < MaxDetectorCalls
    /\ LET s == setLocale(SwitchState, x) IN
       SetSwitchState([s EXCEPT !.ldCalls =
           Append(@, [op |-> "setLocale", arg |-> x,
                      result |-> IF x \in SUPPORTED_LOCALES THEN "true" ELSE "false",
                      stored |-> s.savedLocale, before |-> savedLocale,
                      current |-> s.ldCurrentLocale])])
    /\ UNCHANGED <<pageLocale, chCalls>>
    /\ UNCHANGED fontVars
    /\ UNCHANGED i18nVars

\* CabraDaTechApp before its init is called
AppNotStarted == [pc |-> "none", bodyClass |-> NoValue, isInitialized |-> FALSE,
                  modulesOk |-> TRUE]

\* the state after construction, in an environment: navigator.language,
\* navigator.languages, the query parameters, the stored entry, and whether
\* storage throws
Constructed(lang, langs, params, saved, disabled) ==
    /\ navLanguage = lang
    /\ navLanguages = langs
    /\ urlParams = params
    /\ storageDisabled = disabled
    /\ ldCalls = <<>>
    /\ newsCurrentLocale = "pt-BR"
    /\ newsEvents = <<>>
    /\ selectExists = TRUE
    /\ selectValue = NoValue
    /\ selectDisabled = FALSE
    /\ htmlLang = NoValue
    /\ htmlDir = "ltr"
    /\ pageLocale = NoValue
    /\ vlibrasVisible = TRUE
    /\ liveText = NoMessage
    /\ announceTimers = <<>>
    /\ savedLocale = saved
    /\ ldCurrentLocale = NoValue
    /\ rtlCurrentDirection = "ltr"
    /\ formatterLocale = "pt-BR"
    /\ lsCurrentLocale = "pt-BR"
    /\ isChanging = FALSE
    /\ languageChanged = <<>>
    /\ chCalls = <<>>
    /\ doc = DefaultDoc
    /\ doc0 = DefaultDoc
    /\ excludedElements = {}
    /\ rafPending = 0
    /\ dirCalls = <<>>
    /\ insertions = 0
    /\ liveRegionExists = TRUE
    /\ pageHasI18n = TRUE
    /\ i18nInit = [pc |-> "none", locale |-> NoValue, lt |-> 0]
    /\ app = AppNotStarted
    /\ initTimer = FALSE
    /\ clCalls = <<>>
    /\ tsCache = {}
    /\ tsStorage = {}
    /\ translateCalls = <<>>

NoParams == [lang |-> Null, locale |-> Null]

InitSwitcher == Constructed(Str(LocaleChars["pt-BR"]), <<>>, NoParams, NoValue, FALSE)

\* The page after its start-up for the detected locale pt-BR (localedetected,
\* i18n.init, i18nready and the init of every component have run and their
\* loads have settled): pt-BR is loaded and cached, the fallback bundle was
\* fetched with either outcome, Roboto is loaded and the pt-BR stack applied,
\* the RTL observer is running. enOk: the fallback bundle was fetched; sel,
\* live, i18n: the document holds the select, the live region, data-i18n
\* elements; d: its elements that RTLSupport adjusts.
PageStarted(enOk, sel, live, i18n, d) ==
    /\ /\ translations = [L \in SUPPORTED_LOCALES |->
                               IF L = "pt-BR" \/ (L = "en" /\ enOk) THEN DefaultFiles[L]
                               ELSE NotLoaded]
         /\ cache = [L \in SUPPORTED_LOCALES |->
                        IF L = "pt-BR" \/ (L = "en" /\ enOk)
                        THEN [has |-> TRUE, timestamp |-> 0] ELSE NoEntry]
         /\ fetches = <<[locale |-> "pt-BR", st |-> "ok"],
                        [locale |-> "en", st |-> IF enOk THEN "ok" ELSE "fail"]>>
         /\ ltCalls = <<[locale |-> "pt-BR", cur |-> "pt-BR", f |-> 1, pc |-> "done",
                         result |-> Resolved(DefaultFiles["pt-BR"]), during |-> 0,
                         primaryFailed |-> FALSE, fellBack |-> FALSE],
                        [locale |-> "en", cur |-> "en", f |-> 2, pc |-> "done",
                         result |-> IF enOk THEN Resolved(DefaultFiles["en"]) ELSE Rejected,
                         during |-> 0, primaryFailed |-> ~enOk, fellBack |-> FALSE]>>
    /\ loadingPromises = [L \in SUPPORTED_LOCALES |-> 0]
    /\ now = 0
    /\ ticks = 0
    /\ files = DefaultFiles
    /\ i18nCurrentLocale = "pt-BR"
    /\ tCall = [pc |-> "idle", key |-> <<>>, params |-> EmptyObject, locale |-> NoLocale,
                result |-> Undefined]
    /\ loadedFonts = {"Roboto"}
    /\ fontLoadingPromises = [f \in FontNames |-> 0]
    /\ fontPromises = <<[font |-> "Roboto", stage |-> "done", value |-> TRUE]>>
    /\ links = [f \in WebFonts |-> IF f = "Roboto" THEN "loaded" ELSE "none"]
    /\ linkInjections = [f \in WebFonts |-> IF f = "Roboto" THEN 1 ELSE 0]
    /\ fCalls = <<[font |-> "Roboto", p |-> 1, pc |-> "done", result |-> TRUE, parent |-> 1,
                   during |-> 0],
                  [font |-> "Segoe UI", p |-> 0, pc |-> "done", result |-> FALSE, parent |-> 1,
                   during |-> 0],
                  [font |-> "Roboto", p |-> 0, pc |-> "done", result |-> TRUE, parent |-> 0,
                   during |-> 0],
                  [font |-> "Roboto", p |-> 0, pc |-> "done", result |-> TRUE, parent |-> 2,
                   during |-> 0],
                  [font |-> "Segoe UI", p |-> 0, pc |-> "done", result |-> FALSE, parent |-> 2,
                   during |-> 0]>>
    /\ lCalls = <<[locale |-> "pt-BR", pc |-> "done", result |-> TRUE, subs |-> 1..2],
                  [locale |-> "pt-BR", pc |-> "done", result |-> TRUE, subs |-> 4..5]>>
    /\ fontStack = FontStack("pt-BR", {"Roboto"})
    /\ flCurrentLocale = "pt-BR"
    /\ selectExists = sel
    /\ selectValue = IF sel THEN "pt-BR" ELSE NoValue
    /\ selectDisabled = FALSE
    /\ htmlLang = "pt-BR"
    /\ htmlDir = "ltr"
    /\ pageLocale = "pt-BR"
    /\ vlibrasVisible = TRUE
    /\ liveText = NoMessage
    /\ announceTimers = <<>>
    /\ savedLocale = "pt-BR"
    /\ ldCurrentLocale = "pt-BR"
    /\ rtlCurrentDirection = "ltr"
    /\ formatterLocale = "pt-BR"
    /\ lsCurrentLocale = "pt-BR"
    /\ isChanging = FALSE
    /\ languageChanged = <<>>
    /\ chCalls = <<>>
    /\ doc = d
    /\ doc0 = d
    /\ excludedElements = {}
    /\ rafPending = 0
    /\ dirCalls = <<>>
    /\ insertions = 0
    /\ liveRegionExists = live
    /\ pageHasI18n = i18n
    /\ navLanguage = Str(LocaleChars["pt-BR"])
    /\ navLanguages = <<>>
    /\ urlParams = NoParams
    /\ storageDisabled = FALSE
    /\ ldCalls = <<[op |-> "detect", arg |-> NoValue, result |-> "pt-BR",
                    stored |-> "pt-BR", before |-> NoValue,
                    current |-> "pt-BR"]>>
    /\ newsCurrentLocale = "pt-BR"
    /\ newsEvents = <<>>
    /\ i18nInit = [pc |-> "ready", locale |-> "pt-BR", lt |-> 1]
    /\ app = AppNotStarted
    /\ initTimer = FALSE
    /\ clCalls = <<>>
    /\ tsCache = {}
    /\ tsStorage = {}
    /\ translateCalls = <<>>

InitPage ==
    \E enOk \in BOOLEAN, sel \in BOOLEAN, live \in BOOLEAN, i18n \in BOOLEAN,
       d \in {DefaultDoc, PlainDoc} :
        PageStarted(enOk, sel, live, i18n, d)

\* a continuation of a settled promise is waiting to run
MicrotaskPending ==
    \/ \E c \in 1..Len(chCalls) : CanResumeAfterFonts(c) \/ CanResumeAfterTranslations(c)
    \/ \E l \in 1..Len(lCalls) :
          lCalls[l].pc = "loading" /\ \A c \in lCalls[l].subs : fCalls[c].pc = "done"
    \/ \E c \in 1..Len(ltCalls) :
          ltCalls[c].pc = "joined" /\ fetches[ltCalls[c].f].st # "pending"

\* events and timers run only when no continuation is waiting
NextSwitcher ==
    \/ \E L \in SwitchLocales : ~MicrotaskPending /\ SelectChange(L)
    \/ \E L \in SwitchLocales : ~MicrotaskPending /\ WindowChangeLanguage(L)
    \/ \E f \in 1..Len(fetches), ok \in BOOLEAN : ~MicrotaskPending /\ FetchSettle(f, ok)
    \/ \E name \in WebFonts, ok \in BOOLEAN : ~MicrotaskPending /\ CssSettle(name, ok)
    \/ \E q \in 1..Len(fontPromises) : ~MicrotaskPending /\ FontReady(q)
    \/ ~MicrotaskPending /\ AnnounceTimer
    \/ ~MicrotaskPending /\ AnimationFrame
    \/ \E c \in 1..Len(chCalls) : ResumeAfterFonts(c)
    \/ \E c \in 1..Len(chCalls) : ResumeAfterTranslations(c)
    \/ \E l \in 1..Len(lCalls) : LocaleFontsSettled(l)
    \/ \E c \in 1..Len(ltCalls) : JoinResume(c)

SpecSwitcher == InitPage /\ [][NextSwitcher]_vars

\* the started page with its default document, live region and data-i18n
\* elements; the fallback bundle and the select may be missing
InitChange == \E enOk \in BOOLEAN, sel \in BOOLEAN : PageStarted(enOk, sel, TRUE, TRUE, DefaultDoc)

SpecChange == InitChange /\ [][NextSwitcher]_vars

\* the started page with window.setLocale among the calls of the environment
InitSetLocale == \E sel \in BOOLEAN : PageStarted(TRUE, sel, TRUE, TRUE, DefaultDoc)

NextSetLocale ==
    \/ \E x \in SampleSetLocaleArgs : ~MicrotaskPending /\ WindowSetLocale(x)
    \/ NextSwitcher

\* what the browser does on its own: the network, timers, frames and the
\* continuations of settled promises
SystemStep ==
    \/ \E f \in 1..Len(fetches), ok \in BOOLEAN : ~MicrotaskPending /\ FetchSettle(f, ok)
    \/ \E name \in WebFonts, ok \in BOOLEAN : ~MicrotaskPending /\ CssSettle(name, ok)
    \/ \E q \in 1..Len(fontPromises) : ~MicrotaskPending /\ FontReady(q)
    \/ ~MicrotaskPending /\ AnnounceTimer
    \/ ~MicrotaskPending /\ AnimationFrame
    \/ \E c \in 1..Len(chCalls) : ResumeAfterFonts(c)
    \/ \E c \in 1..Len(chCalls) : ResumeAfterTranslations(c)
    \/ \E l \in 1..Len(lCalls) : LocaleFontsSettled(l)
    \/ \E c \in 1..Len(ltCalls) : JoinResume(c)

SpecSetLocale == InitSetLocale /\ [][NextSetLocale]_vars /\ WF_vars(SystemStep)


InitRtl == \E d \in SampleDocs : PageStarted(TRUE, TRUE, TRUE, TRUE, d)

NextRtl ==
    \/ \E direction \in {"ltr", "rtl"} : SetDirection(direction)
    \/ InsertNode
    \/ AnimationFrame

SpecRtl == InitRtl /\ [][NextRtl]_vars

\* ------------------------------------------- direct i18n.changeLocale calls
MaxLocaleChanges == 2  \* i18n.changeLocale calls in one run

\* i18n.changeLocale(L) from the assignment of currentLocale to its return:
\* translatePage, the observers, i18nchanged with the listeners of FontLoader,
\* RTLSupport, IntlFormatter and LanguageSwitcher
AssignLocale(s, L) ==
    LET r == LoadFontsForLocaleSync(FontState, L, Len(lCalls) + 1) IN
    /\ i18nCurrentLocale' = L
    /\ pageLocale' = L
    /\ SetFontState(r.s)
    /\ lCalls' = Append(lCalls, r.call)
    /\ flCurrentLocale' = L
    /\ SetSwitchState(ObserverCallback(I18nChangedListeners(translatePage(s), L)))
    /\ UNCHANGED <<translations, cache, loadingPromises, fetches, ltCalls, now, ticks,
                   files, tCall, fontStack, chCalls>>

\* window.i18n.changeLocale(L), up to its await or, without one, to its return
CallChangeLocale(L) ==
    /\ Len(clCalls) < MaxLocaleChanges
    /\ LET call == [locale |-> L, pc |-> "done", result |-> "resolved", lt |-> 0] IN
       IF i18nCurrentLocale = L
       THEN /\ SetSwitchState([SwitchState EXCEPT !.clCalls = Append(@, call)])
            /\ UNCHANGED <<pageLocale, chCalls>>
            /\ UNCHANGED fontVars
            /\ UNCHANGED i18nVars
       ELSE IF translations[L] # NotLoaded
       THEN AssignLocale([SwitchState EXCEPT !.clCalls = Append(@, call)], L)
       ELSE LET r == LoadTranslationsSync(I18nState, L, now)
                pend == PendingFetches(fetches, L)
                lt == [locale |-> L, cur |-> L, f |-> 0, pc |-> "start", result |-> Pending,
                       during |-> IF pend = {} THEN 0 ELSE CHOOSE f \in pend : TRUE,
                       primaryFailed |-> FALSE, fellBack |-> FALSE]
            IN /\ SetI18nState(r.s)
               /\ ltCalls' = Append(ltCalls, CallAfterSync(lt, r, L))
               /\ SetSwitchState([SwitchState EXCEPT !.clCalls =
                      Append(@, [call EXCEPT !.pc = "i18n", !.result = "pending",
                                             !.lt = Len(ltCalls) + 1])])
               /\ UNCHANGED <<now, ticks, files, i18nCurrentLocale, tCall, pageLocale, chCalls>>
               /\ UNCHANGED fontVars

CanResumeChangeLocale(c) == clCalls[c].pc = "i18n" /\ ltCalls[clCalls[c].lt].pc = "done"

\* loadTranslations has settled in a direct changeLocale call: the call goes
\* on to the assignment, or rethrows
ChangeLocaleResume(c) ==
    /\ CanResumeChangeLocale(c)
    /\ IF ltCalls[clCalls[c].lt].result.st = "resolved"
       THEN AssignLocale([SwitchState EXCEPT !.clCalls[c].pc = "done",
                                             !.clCalls[c].result = "resolved"],
                         clCalls[c].locale)
       ELSE /\ SetSwitchState([SwitchState EXCEPT !.clCalls[c].pc = "done",
                                                  !.clCalls[c].result = "rejected"])
            /\ UNCHANGED <<pageLocale, chCalls>>
            /\ UNCHANGED fontVars
            /\ UNCHANGED i18nVars

\* a continuation is waiting to run
LocaleMicrotask ==
    MicrotaskPending \/ \E c \in 1..Len(clCalls) : CanResumeChangeLocale(c)

\* the started page with i18n.changeLocale called by other scripts
InitLocale == \E enOk \in BOOLEAN : PageStarted(enOk, TRUE, TRUE, TRUE, DefaultDoc)

NextLocale ==
    \/ \E L \in SwitchLocales : ~LocaleMicrotask /\ CallChangeLocale(L)
    \/ \E f \in 1..Len(fetches), ok \in BOOLEAN : ~LocaleMicrotask /\ FetchSettle(f, ok)
    \/ \E name \in WebFonts, ok \in BOOLEAN : ~LocaleMicrotask /\ CssSettle(name, ok)
    \/ \E q \in 1..Len(fontPromises) : ~LocaleMicrotask /\ FontReady(q)
    \/ ~LocaleMicrotask /\ AnimationFrame
    \/ \E c \in 1..Len(clCalls) : ChangeLocaleResume(c)
    \/ \E l \in 1..Len(lCalls) : LocaleFontsSettled(l)
    \/ \E c \in 1..Len(ltCalls) : JoinResume(c)

SpecLocale == InitLocale /\ [][NextLocale]_vars

\* ------------------------------------------------------------ page start-up
\* I18n.isLoaded
isLoaded(tr, L) == tr[L] # NotLoaded

\* LocaleDetector.applyToDocument
applyToDocument(s, L) == [s EXCEPT !.htmlLang = L, !.htmlDir = LocaleDir(L)]

\* LanguageSwitcher.init(L): currentLocale, the value of the select, VLibras
LanguageSwitcherInit(s, L) ==
    updateVLibras(updateSelectValue([s EXCEPT !.lsCurrentLocale = L], L), L)

\* CabraDaTechApp.init up to its first pending await: checkModules, then the
\* promise that resolves at once when the bundle of the current locale is
\* loaded and on the next i18nready event otherwise
AppInitStart(s, tr) ==
    LET L == IF s.ldCurrentLocale = NoValue THEN defaultLocale ELSE s.ldCurrentLocale IN
    IF ~s.app.modulesOk
    THEN [s EXCEPT !.app.pc = "done", !.app.bodyClass = "app-error"]
    ELSE IF isLoaded(tr, L)
    THEN [s EXCEPT !.app.pc = "i18nReady"]
    ELSE [s EXCEPT !.app.pc = "awaitI18n"]

\* the i18nready listener that CabraDaTechApp.init registered once
AppI18nReady(s) == IF s.app.pc = "awaitI18n" THEN [s EXCEPT !.app.pc = "i18nReady"] ELSE s

\* the DOMContentLoaded event: LocaleDetector.init (detect, applyToDocument,
\* localedetected with the listeners of I18n, FontLoader and RTLSupport), the
\* timeout of LanguageSwitcher, CabraDaTechApp.init
DOMContentLoaded ==
    /\ i18nInit.pc = "none" /\ app.pc = "none"
    /\ LET d == detect(SwitchState)
           L == d.locale
           r == LoadTranslationsSync(I18nState, L, now)
           call == [locale |-> L, cur |-> L, f |-> 0, pc |-> "start", result |-> Pending,
                    during |-> 0, primaryFailed |-> FALSE, fellBack |-> FALSE]
           fl == LoadFontsForLocaleSync(FontState, L, Len(lCalls) + 1)
           s1 == setDirection(applyToDocument(d.s, L), getDirection(L))
           s2 == [s1 EXCEPT !.i18nInit = [pc |-> "loading", locale |-> L,
                                          lt |-> Len(ltCalls) + 1],
                            !.initTimer = TRUE,
                            !.ldCalls = Append(@, [op |-> "detect", arg |-> NoValue,
                                                   result |-> L, stored |-> d.s.savedLocale,
                                                   before |-> savedLocale,
                                                   current |-> d.s.ldCurrentLocale])]
       IN /\ i18nCurrentLocale' = L
          /\ SetI18nState(r.s)
          /\ ltCalls' = Append(ltCalls, CallAfterSync(call, r, L))
          /\ SetFontState(fl.s)
          /\ lCalls' = Append(lCalls, fl.call)
          /\ flCurrentLocale' = L
          /\ SetSwitchState(AppInitStart(s2, r.s.translations))
    /\ UNCHANGED <<now, ticks, files, tCall, fontStack, pageLocale, chCalls>>

CanResumeInit == i18nInit.pc = "loading" /\ ltCalls[i18nInit.lt].pc = "done"

\* loadTranslations has settled in i18n.init. Rejected: init throws and the
\* localedetected listener logs the error. Resolved: the fallback bundle is
\* requested, the page translated, and the listener dispatches i18nready to
\* FontLoader.init, LanguageSwitcher.init, RTLSupport.init and the promise of
\* CabraDaTechApp.init
I18nInitResume ==
    /\ CanResumeInit
    /\ LET L == i18nInit.locale IN
       IF ltCalls[i18nInit.lt].result.st = "rejected"
       THEN /\ SetSwitchState([SwitchState EXCEPT !.i18nInit.pc = "failed"])
            /\ UNCHANGED <<pageLocale, chCalls>>
            /\ UNCHANGED fontVars
            /\ UNCHANGED i18nVars
       ELSE LET r == LoadTranslationsSync(I18nState, fallbackLocale, now)
                call == [locale |-> fallbackLocale, cur |-> fallbackLocale, f |-> 0,
                         pc |-> "start", result |-> Pending, during |-> 0,
                         primaryFailed |-> FALSE, fellBack |-> FALSE]
                f1 == LoadFontsSync(FontState, <<"Roboto">>, 0)
                fl == LoadFontsForLocaleSync(f1, L, Len(lCalls) + 1)
                s1 == translatePage([SwitchState EXCEPT !.i18nInit.pc = "ready"])
                s2 == LanguageSwitcherInit(s1, L)
                s3 == setDirection(s2, getDirection(L))
            IN /\ IF L # fallbackLocale
                  THEN /\ SetI18nState(r.s)
                       /\ ltCalls' = Append(ltCalls, CallAfterSync(call, r, fallbackLocale))
                  ELSE /\ SetI18nState(I18nState)
                       /\ UNCHANGED ltCalls
               /\ pageLocale' = L
               /\ SetFontState(fl.s)
               /\ lCalls' = Append(lCalls, fl.call)
               /\ flCurrentLocale' = L
               /\ SetSwitchState(AppI18nReady(s3))
               /\ UNCHANGED <<now, ticks, files, i18nCurrentLocale, tCall, fontStack, chCalls>>

\* the promise of step 2 is resolved: CabraDaTechApp.init calls loadData, which
\* fetches the news document
AppResume ==
    /\ app.pc = "i18nReady"
    /\ SetSwitchState([SwitchState EXCEPT !.app.pc = "awaitData"])
    /\ UNCHANGED <<pageLocale, chCalls>>
    /\ UNCHANGED fontVars
    /\ UNCHANGED i18nVars

\* the fetch of loadData settles (a failure makes the data null):
\* renderNoticias appends the cards when there are data, the set-up steps run,
\* body gets the class app-ready
AppDataSettle(ok) ==
    /\ app.pc = "awaitData"
    /\ SetSwitchState(ObserverCallback(
           [SwitchState EXCEPT !.app = [@ EXCEPT !.pc = "done", !.isInitialized = TRUE,
                                                 !.bodyClass = "app-ready"],
                               !.added = ok]))
    /\ UNCHANGED <<pageLocale, chCalls>>
    /\ UNCHANGED fontVars
    /\ UNCHANGED i18nVars

\* the 500 ms timeout set at DOMContentLoaded: LanguageSwitcher.init() unless
\* the select has a value
InitTimeout ==
    /\ initTimer
    /\ LET s == [SwitchState EXCEPT !.initTimer = FALSE] IN
       IF selectExists /\ selectValue # NoValue
       THEN SetSwitchState(s)
       ELSE SetSwitchState(LanguageSwitcherInit(s, getLocale))
    /\ UNCHANGED <<pageLocale, chCalls>>
    /\ UNCHANGED fontVars
    /\ UNCHANGED i18nVars

\* locales of the browser in the start-up runs
StartupLanguages == {Str(LocaleChars["pt-BR"]), Str(LocaleChars["en"])}

\* the loaded page before DOMContentLoaded; modulesOk: window holds every
\* module that checkModules requires
InitStartup ==
    /\ InitI18n
    /\ InitFont
    /\ \E lang \in StartupLanguages, modulesOk \in BOOLEAN :
          /\ navLanguage = lang
          /\ navLanguages = <<>>
          /\ urlParams = NoParams
          /\ storageDisabled = FALSE
          /\ ldCalls = <<>>
          /\ newsCurrentLocale = "pt-BR"
          /\ newsEvents = <<>>
          /\ selectExists = TRUE
          /\ selectValue = NoValue
          /\ selectDisabled = FALSE
          /\ htmlLang = NoValue
          /\ htmlDir = "ltr"
          /\ pageLocale = NoValue
          /\ vlibrasVisible = TRUE
          /\ liveText = NoMessage
          /\ announceTimers = <<>>
          /\ savedLocale = NoValue
          /\ ldCurrentLocale = NoValue
          /\ rtlCurrentDirection = "ltr"
          /\ formatterLocale = "pt-BR"
          /\ lsCurrentLocale = "pt-BR"
          /\ isChanging = FALSE
          /\ languageChanged = <<>>
          /\ chCalls = <<>>
          /\ doc = DefaultDoc
          /\ doc0 = DefaultDoc
          /\ excludedElements = {}
          /\ rafPending = 0
          /\ dirCalls = <<>>
          /\ insertions = 0
          /\ liveRegionExists = TRUE
          /\ pageHasI18n = TRUE
          /\ i18nInit = [pc |-> "none", locale |-> NoValue, lt |-> 0]
          /\ app = [AppNotStarted EXCEPT !.modulesOk = modulesOk]
          /\ initTimer = FALSE
          /\ clCalls = <<>>
          /\ tsCache = {}
          /\ tsStorage = {}
          /\ translateCalls = <<>>

\* a continuation of the start-up is waiting to run
StartupMicrotask == MicrotaskPending \/ CanResumeInit \/ app.pc = "i18nReady"

NextStartup ==
    \/ DOMContentLoaded
    \/ \E f \in 1..Len(fetches), ok \in BOOLEAN : ~StartupMicrotask /\ FetchSettle(f, ok)
    \/ \E name \in WebFonts, ok \in BOOLEAN : ~StartupMicrotask /\ CssSettle(name, ok)
    \/ \E q \in 1..Len(fontPromises) : ~StartupMicrotask /\ FontReady(q)
    \/ \E ok \in BOOLEAN : ~StartupMicrotask /\ AppDataSettle(ok)
    \/ ~StartupMicrotask /\ InitTimeout
    \/ \E l \in 1..Len(lCalls) : LocaleFontsSettled(l)
    \/ I18nInitResume
    \/ AppResume

SpecStartup == InitStartup /\ [][NextStartup]_vars

Init == InitI18n /\ InitFont /\ InitSwitcher

\* ------------------------------------------------------ TranslationService
MaxTranslateCalls == 2 \* translate calls in one run
\* the length of the text prefix that getCacheKey keeps
KeyPrefixLength == 50

\* langMap
langMap ==
    [L \in {"pt-BR", "pt", "en", "es", "ar", "hi", "ja", "ru"} |->
        IF L = "pt-BR" THEN "pt" ELSE L]
TargetChars ==
    [L \in {"pt", "en", "es", "ar", "hi", "ja", "ru"} |->
        CASE L = "pt" -> <<"p", "t">> [] L = "en" -> <<"e", "n">> [] L = "es" -> <<"e", "s">>
          [] L = "ar" -> <<"a", "r">> [] L = "hi" -> <<"h", "i">> [] L = "ja" -> <<"j", "a">>
          [] OTHER -> <<"r", "u">>]

\* text.substring(0, n)
Substring(cs, n) == SubSeq(cs, 1, IF Len(cs) < n THEN Len(cs) ELSE n)

\* getCacheKey: `${targetLang}:${text.substring(0, 50)}`
getCacheKey(text, target) == TargetChars[target] \o <<":">> \o Substring(text, KeyPrefixLength)

\* what the translation API answers for a text and a target language
TranslationOf(text, target) == [of |-> text, to |-> target]

\* Map.has, Map.get and Map.set on the cache, a set of [key, value] entries
CacheHas(c, key) == \E e \in c : e.key = key
CacheGet(c, key) == (CHOOSE e \in c : e.key = key).value
CacheSet(c, key, value) == {e \in c : e.key # key} \cup {[key |-> key, value |-> value]}

\* saveCache and clearCache on localStorage, whose errors are caught
saveCache(s) == IF storageDisabled THEN s ELSE [s EXCEPT !.tsStorage = s.tsCache]

\* texts and languages passed to translate in the bounded runs: empty, blank
\* and short texts, and two texts that differ only after their 50th character
LongText(last) == [i \in 1..KeyPrefixLength |-> "n"] \o <<last>>
SampleTexts == {<<>>, <<" ">>, <<"a">>, <<"b">>, LongText("x"), LongText("y")}
SampleTargets == {"pt-BR", "en", "ar", "xx"}

\* translator.translate(text, targetLang) up to its fetch or, without one, to
\* its return
CallTranslate(text, targetLang) ==
    /\ Len(translateCalls) < MaxTranslateCalls
    /\ LET call == [text |-> text, targetLang |-> targetLang, pc |-> "done",
                    result |-> [of |-> text, to |-> "none"], hit |-> FALSE]
           target == IF targetLang \in DOMAIN langMap THEN langMap[targetLang] ELSE NoValue
           done == IF \/ text = <<>> \/ Trim(text) = <<>>
                      \/ targetLang = "pt-BR" \/ targetLang = "pt"
                      \/ target = NoValue
                   THEN call
                   ELSE IF CacheHas(tsCache, getCacheKey(text, target))
                   THEN [call EXCEPT !.result = CacheGet(tsCache, getCacheKey(text, target)),
                                     !.hit = TRUE]
                   ELSE [call EXCEPT !.pc = "fetch"]
       IN SetSwitchState([SwitchState EXCEPT !.translateCalls = Append(@, done)])
    /\ UNCHANGED <<pageLocale, chCalls>>
    /\ UNCHANGED fontVars
    /\ UNCHANGED i18nVars

\* the request of a translate call settles: with a translation (cached and
\* saved), with an empty translation, or with an error (the text is returned)
TranslateSettle(c, outcome) ==
    /\ translateCalls[c].pc = "fetch"
    /\ LET call == translateCalls[c]
           target == langMap[call.targetLang]
           s == [SwitchState EXCEPT !.translateCalls[c].pc = "done"]
       IN IF outcome = "ok"
          THEN SetSwitchState(saveCache(
                   [s EXCEPT !.translateCalls[c].result = TranslationOf(call.text, target),
                             !.tsCache = CacheSet(@, getCacheKey(call.text, target),
                                                  TranslationOf(call.text, target))]))
          ELSE SetSwitchState(s)
    /\ UNCHANGED <<pageLocale, chCalls>>
    /\ UNCHANGED fontVars
    /\ UNCHANGED i18nVars

\* translator.clearCache()
ClearTranslationCache ==
    /\ tsCache # {}
    /\ SetSwitchState([SwitchState EXCEPT !.tsCache = {},
                          !.tsStorage = IF storageDisabled THEN @ ELSE {}])
    /\ UNCHANGED <<pageLocale, chCalls>>
    /\ UNCHANGED fontVars
    /\ UNCHANGED i18nVars

NextTranslate ==
    \/ \E text \in SampleTexts, targetLang \in SampleTargets : CallTranslate(text, targetLang)
    \/ \E c \in 1..Len(translateCalls), outcome \in {"ok", "empty", "fail"} :
          TranslateSettle(c, outcome)
    \/ ClearTranslationCache

SpecTranslate == Init /\ [][NextTranslate]_vars

InitDetect ==
    /\ InitI18n
    /\ InitFont
    /\ \E lang \in SampleLanguages, langs \in SampleLanguageLists,
          pl \in SampleLangParams, pc \in SampleLocaleParams,
          saved \in SampleSaved, disabled \in BOOLEAN :
          Constructed(lang, langs, [lang |-> pl, locale |-> pc], saved, disabled)

NextDetect ==
    \/ Detect
    \/ DetectBrowserLocale
    \/ \E x \in SampleSetLocaleArgs : WindowSetLocale(x)

SpecDetect == InitDetect /\ [][NextDetect]_vars

NextI18n ==
    \/ \E L \in ModelLocales : CallLoadTranslations(L)
    \/ \E f \in 1..Len(fetches), ok \in BOOLEAN : FetchSettle(f, ok)
    \/ \E c \in 1..Len(ltCalls) : JoinResume(c)
    \/ ClearCache
    \/ \E d \in TickSteps : Tick(d)

SpecI18n == Init /\ [][NextI18n]_vars

NextFont ==
    \/ \E name \in DirectFonts : CallLoadFont(name)
    \/ \E L \in FontLocales : CallLoadFontsForLocale(L)
    \/ \E name \in WebFonts, ok \in BOOLEAN : CssSettle(name, ok)
    \/ \E q \in 1..Len(fontPromises) : FontReady(q)
    \/ \E l \in 1..Len(lCalls) : LocaleFontsSettled(l)
    \/ ClearFontCache

SpecFont == Init /\ [][NextFont]_vars

InitOfT == InitT /\ InitFont /\ InitSwitcher
NextT == CallT
SpecT == InitOfT /\ [][NextT]_vars

\* ---------------------------------------------------------------- claims
\* C1: a changeLanguage call issued while another one is executing its steps
\* resolves to false without performing any step, whether or not the select
\* element exists.
C1_OneChangeAtATime ==
    \A c \in 1..Len(chCalls) :
        chCalls[c].busy => (chCalls[c].pc = "done" /\ chCalls[c].result = "false")

\* C2: when a changeLanguage call whose translation step threw resolves to
\* false, the select shows the locale that was current before the call, the
\* generic error message has been announced, and the switcher is idle with
\* the select enabled.
C2_FailureReverts ==
    [][\A c \in 1..Len(chCalls) :
          (/\ selectExists
           /\ chCalls[c].pc = "i18n"
           /\ chCalls'[c].pc = "done" /\ chCalls'[c].result = "false")
          => /\ selectValue' = chCalls[c].prev
             /\ announceTimers' # <<>>
             /\ announceTimers'[Len(announceTimers')] = ErrorMessage
             /\ ~isChanging' /\ ~selectDisabled']_vars

\* C3: within one changeLanguage operation the dir attribute of the document
\* root changes only once the font load and the translation step of the
\* operation have completed, and a font load is started only by step 2.
C3_StrictStepOrder ==
    /\ [][(selectExists /\ htmlDir' # htmlDir) => ~ChangeInProgress(chCalls')]_vars
    /\ [][(selectExists /\ Len(lCalls') > Len(lCalls))
            => \E c \in 1..Len(chCalls') :
                  chCalls'[c].pc = "fonts" /\ chCalls'[c].l = Len(lCalls')]_vars

NumFetches(fs, L) == Cardinality({f \in 1..Len(fs) : fs[f].locale = L})

\* C11: from an LTR document, setDirection('rtl') followed by
\* setDirection('ltr') leaves every adjusted element (icon, tooltip, dropdown,
\* modal, breadcrumb separator) with the classes, attributes and text it had
\* before the first call, and no marker attribute behind.
C11_RoundTripRestores ==
    (dirCalls = <<"rtl", "ltr">> /\ insertions = 0) => doc = doc0

\* C12: while the direction is RTL, a re-run of adjustElements requested by
\* the observer leaves every element as the first run left it.
C12_ReadjustIsIdempotent ==
    [][(rafPending' < rafPending /\ rtlCurrentDirection = "rtl") => doc' = doc]_vars

\* C13: detect() resolves the locale by strict priority: the normalized URL
\* parameter (lang, else locale) when it is supported, else the saved
\* preference when it is supported, else the result of detectBrowserLocale;
\* and with a working storage the resolved locale is the stored value when
\* detect returns.
ExpectedDetect(saved) ==
    IF getLocaleFromURL # NoValue THEN getLocaleFromURL
    ELSE IF saved \in SUPPORTED_LOCALES THEN saved
    ELSE detectBrowserLocale(BrowserLanguages)
C13_DetectPriority ==
    \A c \in 1..Len(ldCalls) :
        (ldCalls[c].op = "detect" /\ ~storageDisabled) =>
            /\ ldCalls[c].result = ExpectedDetect(ldCalls[c].before)
            /\ ldCalls[c].stored = ldCalls[c].result

\* C14: when navigator.language is a key V of the fallback table, in any
\* letter case and with "-" or "_" as separator, detectBrowserLocale returns
\* the locale B the table gives for V.
CanonicalCode(cs) == [i \in 1..Len(cs) |-> IF cs[i] = "_" THEN "-" ELSE ToLowerChar(cs[i])]
IsVariantOf(v, key) == v.k = "string" /\ CanonicalCode(v.s) = CanonicalCode(key)
C14_FallbackTableApplies ==
    \A c \in 1..Len(ldCalls) : \A key \in DOMAIN LOCALE_FALLBACKS :
        (ldCalls[c].op = "detectBrowserLocale" /\ IsVariantOf(navLanguage, key)) =>
            ldCalls[c].result = LOCALE_FALLBACKS[key]

\* C15: detectBrowserLocale returns a supported locale for every list of
\* browser languages, and after any calls of detect() and window.setLocale(x)
\* window.getLocale() is a supported locale.
C15_AlwaysSupported ==
    /\ getLocale \in SUPPORTED_LOCALES
    /\ \A c \in 1..Len(ldCalls) :
           ldCalls[c].op = "detectBrowserLocale" => ldCalls[c].result \in SUPPORTED_LOCALES

\* C16: when every storage access throws, detect() returns a supported
\* locale resolved as if no preference were saved and leaves it as the
\* current locale; window.setLocale(L) for a supported L returns true and
\* leaves L as the current locale; nothing is stored.
C16_StorageFailureTolerated ==
    storageDisabled =>
        \A c \in 1..Len(ldCalls) :
            /\ ldCalls[c].op = "detect" =>
                   /\ ldCalls[c].result \in SUPPORTED_LOCALES
                   /\ ldCalls[c].result = ExpectedDetect(NoValue)
                   /\ ldCalls[c].current = ldCalls[c].result
            /\ (ldCalls[c].op = "setLocale" /\ ldCalls[c].arg \in SUPPORTED_LOCALES) =>
                   /\ ldCalls[c].result = "true"
                   /\ ldCalls[c].current = ldCalls[c].arg
            /\ ldCalls[c].stored = ldCalls[c].before

\* C17: interpolation in t replaces every {{token}} whose token is a key of
\* params by that parameter's value, leaves every other {{token}} and all text
\* outside placeholders unchanged, in a single pass.
RECURSIVE ExpectedFrom(_, _, _)
ExpectedFrom(cs, i, params) ==
    IF i > Len(cs) THEN <<>>
    ELSE IF /\ i + 1 <= Len(cs) /\ cs[i] = "{" /\ cs[i + 1] = "{"
            /\ \E j \in (i + 3)..(Len(cs) - 1) :
                   /\ cs[j] = "}" /\ cs[j + 1] = "}"
                   /\ \A k \in (i + 2)..(j - 1) : cs[k] \notin {"{", "}"}
    THEN LET j == CHOOSE j \in (i + 3)..(Len(cs) - 1) :
                      /\ cs[j] = "}" /\ cs[j + 1] = "}"
                      /\ \A k \in (i + 2)..(j - 1) : cs[k] \notin {"{", "}"}
             token == SubSeq(cs, i + 2, j - 1)
         IN (IF token \in DOMAIN params.f THEN JsString(params.f[token])
             ELSE SubSeq(cs, i, j + 1)) \o ExpectedFrom(cs, j + 2, params)
    ELSE <<cs[i]>> \o ExpectedFrom(cs, i + 1, params)
\* the template a call of t finds: what t returns for the same key without params
TemplateOf(call) == T(translations, i18nCurrentLocale, call.key, EmptyObject, call.locale)
C17_InterpolationContract ==
    (tCall.pc = "done" /\ TemplateOf(tCall).k = "string") =>
        tCall.result = Str(ExpectedFrom(TemplateOf(tCall).s, 1, tCall.params))

\* C19: on the started page (observer running), once changeLanguage("ar") from
\* pt-BR has resolved true and every timer and observer callback has run,
\* <html dir> is "rtl", the icons that pointed left point right, and the live
\* region holds the announcement of "ar".
C19_ArabicScenario ==
    (/\ Len(chCalls) = 1
     /\ chCalls[1].locale = "ar" /\ chCalls[1].prev = "pt-BR"
     /\ chCalls[1].pc = "done" /\ chCalls[1].result = "true"
     /\ announceTimers = <<>> /\ rafPending = 0)
    => /\ htmlDir = "rtl"
       /\ doc0.icon.arrow = "left" => doc.icon.arrow = "right"
       /\ doc0.icon.chevron = "left" => doc.icon.chevron = "right"
       /\ liveText = getChangeAnnouncement("ar")

\* C18: after window.setLocale(L) for a supported L other than the current
\* locale, eventually the page is translated to L, the fonts of L are loaded
\* and applied and the direction of RTLSupport is that of L (unless a
\* changeLanguage call takes over).
SetLocaleCalled(L) ==
    /\ chCalls = <<>>
    /\ Len(ldCalls) = 2
    /\ ldCalls[2].op = "setLocale" /\ ldCalls[2].arg = L /\ ldCalls[2].result = "true"
ChainDone(L) ==
    /\ i18nCurrentLocale = L /\ pageLocale = L
    /\ flCurrentLocale = L
    /\ rtlCurrentDirection = getDirection(L)
C18_SetLocaleTriggersChain ==
    \A L \in SUPPORTED_LOCALES \ {"pt-BR"} :
        SetLocaleCalled(L) ~> (ChainDone(L) \/ chCalls # <<>>)

\* C20: every languagechanged event of a successful changeLanguage reaches the
\* language-change handler of NewsManager, which takes the new locale.
C20_NewsManagerHearsChange ==
    /\ Len(newsEvents) = Len(languageChanged)
    /\ \A i \in 1..Len(languageChanged) : newsEvents[i] = languageChanged[i].locale
    /\ languageChanged # <<>> =>
           newsCurrentLocale = languageChanged[Len(languageChanged)].locale

\* C21: the switcher is in Changing (isChanging true, the select disabled with
\* the loading class) only while a changeLanguage call is running and a load
\* it awaits, or the continuation of one, is still to come: once the loads
\* have settled the switcher is Idle again, on success and on failure.
LoadPending ==
    \/ \E f \in 1..Len(fetches) : fetches[f].st = "pending"
    \/ \E name \in WebFonts : links[name] = "loading"
    \/ \E q \in 1..Len(fontPromises) : fontPromises[q].stage = "wait"
    \/ MicrotaskPending
C21_ReturnsToIdle ==
    (isChanging \/ selectDisabled) =>
        /\ \E c \in 1..Len(chCalls) : chCalls[c].pc # "done"
        /\ LoadPending
\* a call that entered Changing has failed and the switcher is idle again
C21_Witness ==
    \E c \in 1..Len(chCalls) :
        /\ chCalls[c].pc = "done" /\ chCalls[c].result = "false" /\ ~chCalls[c].busy
        /\ chCalls[c].locale # chCalls[c].prev
        /\ selectExists /\ ~isChanging /\ ~selectDisabled

\* C22: once CabraDaTechApp.init has been called and nothing of the start-up
\* is pending any more (no fetch, no font load, no timer, no continuation),
\* init has finished and body carries app-ready or app-error, also when the
\* fetches of the detected locale's bundle and of the fallback bundle failed
StartupPending ==
    \/ LoadPending
    \/ CanResumeInit
    \/ initTimer
    \/ app.pc \in {"i18nReady", "awaitData"}
C22_InitFinishes ==
    (app.pc # "none" /\ ~StartupPending) =>
        app.pc = "done" /\ app.bodyClass \in {"app-ready", "app-error"}

\* C23: the freshness of a cache entry is checked on read only: a
\* loadTranslations(L) call that finds an entry no older than cacheExpiration
\* returns the cached bundle and issues no fetch; one that finds an older entry
\* removes it and issues exactly one fetch of L; and an entry leaves the cache
\* only through such a read or through clearCache
CalledFor(L) ==
    /\ Len(ltCalls') = Len(ltCalls) + 1
    /\ ltCalls'[Len(ltCalls')].locale = L
EntryAge(L) == now - cache[L].timestamp
OneFetchIssued(L) ==
    /\ Len(fetches') = Len(fetches) + 1
    /\ fetches'[Len(fetches')] = [locale |-> L, st |-> "pending"]
C23_FreshnessOnRead ==
    [][\A L \in SUPPORTED_LOCALES :
          /\ (CalledFor(L) /\ cache[L].has /\ EntryAge(L) <= cacheExpiration) =>
                /\ fetches' = fetches
                /\ cache' = cache
                /\ ltCalls'[Len(ltCalls')].pc = "done"
                /\ ltCalls'[Len(ltCalls')].result = Resolved(files[L])
          /\ (CalledFor(L) /\ cache[L].has /\ EntryAge(L) > cacheExpiration) =>
                /\ ~cache'[L].has
                /\ OneFetchIssued(L)
          /\ (cache[L].has /\ ~cache'[L].has) =>
                \/ \A K \in SUPPORTED_LOCALES : ~cache'[K].has /\ fetches' = fetches
                \/ EntryAge(L) > cacheExpiration /\ OneFetchIssued(L)]_vars
\* a call was served from the cache, without a fetch, by an entry whose age is
\* exactly cacheExpiration
C23_Witness ==
    \E c \in 1..Len(ltCalls) :
        /\ ltCalls[c].pc = "done" /\ ltCalls[c].f = 0
        /\ ltCalls[c].result = Resolved(files[ltCalls[c].locale])
        /\ cache[ltCalls[c].locale].has
        /\ now - cache[ltCalls[c].locale].timestamp = cacheExpiration
        /\ NumFetches(fetches, ltCalls[c].locale) = 1

\* C24: the loadTranslations(L) calls that waited on one in-flight load of L
\* (the call that issued the fetch and the calls made while it was in flight)
\* settle with the same outcome, also when the fetch fails: all with the
\* fallback bundle or all rejected
SharedLoad(c1, c2) ==
    /\ c1 < c2
    /\ ltCalls[c1].locale = ltCalls[c2].locale
    /\ ltCalls[c1].during = 0
    /\ ltCalls[c1].f # 0 \/ ltCalls[c1].primaryFailed
    /\ ltCalls[c2].during # 0
    /\ \A c \in (c1 + 1)..(c2 - 1) :
          ltCalls[c].locale = ltCalls[c1].locale => ltCalls[c].during # 0
C24_SameOutcome ==
    \A c1, c2 \in 1..Len(ltCalls) :
        (SharedLoad(c1, c2) /\ ltCalls[c1].pc = "done" /\ ltCalls[c2].pc = "done") =>
            ltCalls[c1].result = ltCalls[c2].result

\* C25: once I18n.init has resolved, and after every I18n.changeLocale that
\* resolved since (currentLocale changes nowhere else), the bundle of
\* i18n.currentLocale is loaded: isLoaded(currentLocale)
C25_CurrentLocaleLoaded ==
    i18nInit.pc = "ready" => isLoaded(translations, i18nCurrentLocale)

\* C26: after a changeLanguage(newLocale) call that ran into the catch block
\* and returned false, LanguageSwitcher.currentLocale is the locale that was
\* current before the call, and the next changeLanguage(newLocale), called
\* once the switcher is idle, runs its steps again instead of returning at the
\* 'already set' test
FailedInCatch(c) ==
    chCalls[c].pc = "done" /\ chCalls[c].result = "false" /\ chCalls[c].l # 0
C26_FailureKeepsCurrentLocale ==
    \A c \in 1..Len(chCalls) :
        FailedInCatch(c) =>
            /\ c = Len(chCalls) => lsCurrentLocale = chCalls[c].prev
            /\ (/\ c < Len(chCalls)
                /\ chCalls[c + 1].locale = chCalls[c].locale
                /\ ~chCalls[c + 1].busy) => chCalls[c + 1].l # 0

\* C27: when the i18n.changeLocale calls of a run have all resolved,
\* i18n.currentLocale and the translated page are those of the most recently
\* requested locale, also when an earlier call was still awaiting its fetch
\* while a later one was issued and completed
C27_LastRequestWins ==
    (/\ clCalls # <<>>
     /\ \A c \in 1..Len(clCalls) : clCalls[c].pc = "done" /\ clCalls[c].result = "resolved")
    => /\ i18nCurrentLocale = clCalls[Len(clCalls)].locale
       /\ pageLocale = clCalls[Len(clCalls)].locale

\* C28: when every loadFontsForLocale call has settled, the font stack applied
\* to the document is a stack of the most recently requested locale
\* (FontLoader.currentLocale): its loaded preferred fonts, then the system
\* fonts of its script; also when loads for different locales overlapped
StacksOf(L) == {FontStack(L, loaded) : loaded \in SUBSET FontNames}
C28_LastFontRequestWins ==
    (\A l \in 1..Len(lCalls) : lCalls[l].pc = "done") => fontStack \in StacksOf(flCurrentLocale)

\* C29: every languagechanged event of a successful changeLanguage(newLocale)
\* carries locale = newLocale and previousLocale = the locale that was current
\* before the call, which differs from newLocale
C29_EventNamesPreviousLocale ==
    \A e \in 1..Len(languageChanged) :
        /\ languageChanged[e].previousLocale # languageChanged[e].locale
        /\ \E c \in 1..Len(chCalls) :
              /\ chCalls[c].pc = "done" /\ chCalls[c].result = "true"
              /\ chCalls[c].locale = languageChanged[e].locale
              /\ chCalls[c].prev = languageChanged[e].previousLocale

\* C30: a translate(text, targetLang) call that returns from the cache
\* returns a translation that was produced for its own source text and its
\* own target language, never one cached for a different text
C30_CacheReturnsOwnTranslation ==
    \A c \in 1..Len(translateCalls) :
        (translateCalls[c].pc = "done" /\ translateCalls[c].hit) =>
            translateCalls[c].result =
                TranslationOf(translateCalls[c].text, langMap[translateCalls[c].targetLang])

\* C4: at most one fetch of a locale is in flight; every loadTranslations(L)
\* call issued while a fetch of L is in flight waits on that very fetch; and a
\* fetch of L is issued only when none is in flight and the in-memory cache
\* holds no unexpired entry for L.
C4_SingleFlight ==
    /\ [](\A L \in SUPPORTED_LOCALES : Cardinality(PendingFetches(fetches, L)) <= 1)
    /\ [](\A c \in 1..Len(ltCalls) :
            ltCalls[c].during # 0 =>
                /\ ltCalls[c].pc \in {"joined", "done"}
                /\ ltCalls[c].f = ltCalls[c].during)
    /\ [][\A L \in SUPPORTED_LOCALES :
            NumFetches(fetches', L) > NumFetches(fetches, L) =>
                /\ PendingFetches(fetches, L) = {}
                /\ ~CacheFresh(cache, L, now)
                /\ NumFetches(fetches', L) = NumFetches(fetches, L) + 1]_vars

\* two calls for one locale share one pending fetch
C4_Witness ==
    \E c, d \in 1..Len(ltCalls) :
        /\ c # d
        /\ ltCalls[c].locale = ltCalls[d].locale
        /\ ltCalls[c].pc = "awaiting" /\ ltCalls[d].pc = "joined"
        /\ ltCalls[d].during = ltCalls[c].f
        /\ fetches[ltCalls[c].f].st = "pending"

\* C5: a finished loadTranslations(L) call whose fetch of L failed has made
\* one fallback attempt when L is not the fallback locale, resolving with the
\* fallback bundle or rejecting with the fallback's failure; for the fallback
\* locale itself it rejects without a retry.
C5_FallbackOnce ==
    \A c \in 1..Len(ltCalls) :
        (ltCalls[c].pc = "done" /\ ltCalls[c].primaryFailed) =>
            IF ltCalls[c].locale # fallbackLocale
            THEN /\ ltCalls[c].fellBack
                 /\ ltCalls[c].result.st = "resolved"
                        => ltCalls[c].result.bundle = FileOf(fallbackLocale)
            ELSE ~ltCalls[c].fellBack /\ ltCalls[c].result = Rejected

\* C8: loadFont calls for a font issued while a load of that font is in
\* progress join that load: one loadPromise in progress per font, one <link>
\* injected, and each such call resolves to the value of the load it found in
\* progress.
C8_LoadFontCollapses ==
    /\ \A name \in WebFonts :
         /\ Cardinality(PendingFontPromises(fontPromises, name)) <= 1
         /\ linkInjections[name] <= 1
    /\ \A c \in 1..Len(fCalls) :
         fCalls[c].during # 0 =>
            /\ fCalls[c].p = fCalls[c].during
            /\ fCalls[c].pc = "done" =>
                  /\ fontPromises[fCalls[c].during].stage = "done"
                  /\ fCalls[c].result = fontPromises[fCalls[c].during].value

\* two calls for one font, the second issued during the first one's load,
\* have both finished
C8_Witness ==
    \E c, d \in 1..Len(fCalls) :
        /\ c < d
        /\ fCalls[c].font = fCalls[d].font
        /\ fCalls[c].during = 0 /\ fCalls[d].during = fCalls[c].p /\ fCalls[c].p # 0
        /\ fCalls[c].pc = "done" /\ fCalls[d].pc = "done"
        /\ ~fCalls[c].result /\ ~fCalls[d].result
        /\ linkInjections[fCalls[c].font] = 1

\* C9: a font is in loadedFonts only if its stylesheet load succeeded
C9_LoadedOnlyAfterCssSuccess ==
    \A name \in loadedFonts : links[name] = "loaded"

\* the stack loadFontsForLocale has to apply
ExpectedStack(L, loaded) ==
    SelectSeq(getPreferredFonts(L), LAMBDA f : f \in loaded)
        \o getSystemFallbacks(getScriptForLocale(L))

\* C10: loadFontsForLocale(L) returns true when all its loadFont calls have
\* settled, whatever their outcome; by then every configured preferred font
\* has had its stylesheet requested; and the stack it applies is the loaded
\* preferred fonts in preference order followed by the script's fallbacks.
C10_BestEffortStack ==
    [][\A l \in 1..Len(lCalls) :
          (lCalls[l].pc = "loading" /\ lCalls'[l].pc = "done") =>
              /\ lCalls'[l].result = TRUE
              /\ fontStack' = ExpectedStack(lCalls[l].locale, loadedFonts')
              /\ \A i \in 1..Len(getPreferredFonts(lCalls[l].locale)) :
                    LET f == getPreferredFonts(lCalls[l].locale)[i] IN
                    /\ f \in WebFonts => links[f] # "none"
                    /\ \E c \in lCalls[l].subs : fCalls[c].font = f /\ fCalls[c].pc = "done"]_vars

\* fonts for 'ar' were applied after Amiri's stylesheet failed and Noto Sans
\* Arabic loaded
C10_Witness ==
    /\ \E l \in 1..Len(lCalls) : lCalls[l].locale = "ar" /\ lCalls[l].pc = "done"
    /\ links["Amiri"] = "error"
    /\ "Amiri" \notin loadedFonts
    /\ fontStack = <<"Noto Sans Arabic", "Arial", "Tahoma", "sans-serif">>

\* the bundle's own key set: the dotted paths that lead to a string through
\* own properties only
RECURSIVE OwnWalk(_, _)
OwnWalk(v, segs) ==
    IF segs = <<>> THEN v
    ELSE IF v.k = "object" /\ Head(segs) \in DOMAIN v.f
         THEN OwnWalk(v.f[Head(segs)], Tail(segs))
         ELSE Undefined
HasKey(bundle, key) == OwnWalk(bundle, Split(key)).k = "string"
\* nothing at all at the dotted path, neither a string nor an inner node
KeyAbsent(bundle, key) == OwnWalk(bundle, Split(key)) = Undefined

\* the locale a call of t resolves
TLocaleOf(call) == IF call.locale = NoLocale THEN i18nCurrentLocale ELSE call.locale

\* C6: for a key present in the fallback bundle and absent from the loaded
\* bundle of locale L, t(K, {}, L) returns the fallback bundle's string when the
\* fallback bundle is loaded, and the key itself otherwise.
C6_MissingKeyFallsBack ==
    (/\ tCall.pc = "done"
     /\ tCall.params = EmptyObject
     /\ translations[TLocaleOf(tCall)] # NotLoaded
     /\ HasKey(files[fallbackLocale], tCall.key)
     /\ KeyAbsent(translations[TLocaleOf(tCall)], tCall.key))
    => tCall.result = IF translations[fallbackLocale] # NotLoaded
                      THEN OwnWalk(files[fallbackLocale], Split(tCall.key))
                      ELSE Str(tCall.key)

\* C7: t returns a string for every key and params object
C7_AlwaysString ==
    tCall.pc = "done" => tCall.result.k = "string"

====
